---- MODULE Spec2Model ----
(***************************************************************************)
(* Round-state impact engine of OpenSoupRating: the round replays of       *)
(* calculate_kill_contrib, calculate_death_contrib and of the ADRa helper  *)
(* _calculate_xvx_impacts, with the side resolver, the win-probability     *)
(* lookup, the terminal override and the economic modifier they call.      *)
(*                                                                         *)
(* Probabilities and win rates are in hundredths (1.0 is ProbOne), the     *)
(* economic modifier is in hundredths (1.0 is 100), and a contribution     *)
(* (probability delta x modifier) is in ten-thousandths.                   *)
(* An XvX key "AvB" is the pair <<A, B>>.                                  *)
(*                                                                         *)
(* get_components calls every calculator for every player on the same     *)
(* match. One call of calculate_kill_contrib (for player ratedK), one call *)
(* of calculate_death_contrib (for player ratedD) and the ADRa helper are  *)
(* run side by side, event by event, on the same match.                    *)
(*                                                                         *)
(* Further specifications cover the round timeline builder (cutoff, filter *)
(* and sort), the win-probability lookup and the economic modifier called  *)
(* on their own, a five-kill round, get_components with the component      *)
(* registry, and the ancillary metrics calculate_apr and calculate_adra.    *)
(***************************************************************************)
EXTENDS Integers, Sequences, FiniteSets, TLC

VARIABLES
    players,    \* match['players']: sequence of [puuid, teamId]
    planters,   \* bombPlanter of each round of match['roundResults']
    phase,      \* "rounds": between rounds, "replay": in a round's timeline, "done"
    roundIdx,   \* index of the round being processed (= its roundNum)
    rd,         \* round_data of the round being processed
    sides,      \* <<atk_team, def_team>> of kill_contrib / death_contrib
    sidesA,     \* <<atk_team, def_team>> of adra
    n,          \* number of timeline events replayed in this round
    ev,         \* the timeline event replayed last
    ratedK,     \* puuid of the player calculate_kill_contrib is called for
    ratedD,     \* puuid of the player calculate_death_contrib is called for
    aliveK,     \* alive of calculate_kill_contrib(ratedK)
    aliveD,     \* alive of calculate_death_contrib(ratedD)
    aliveA,     \* alive of _calculate_xvx_impacts
    resK,       \* what calculate_kill_contrib(ratedK) did with ev
    resD,       \* what calculate_death_contrib(ratedD) did with ev
    cutoff,     \* effective_round_end_time of the round: {} for None, {t}
    timeline,   \* all_kills of the round, filtered and sorted
    totalK,     \* total_kill_contrib of calculate_kill_contrib(ratedK)
    totalD,     \* total_death_contrib of calculate_death_contrib(ratedD)
    input,      \* arguments of the call of a helper or of get_components
    output,     \* what the call returned
    registry,   \* _COMPONENTS: the registered component names
    pos         \* position of get_components in its loops

\* state of the helper calls and of the aggregator
aux == <<cutoff, timeline, totalK, totalD, input, output, registry, pos>>

vars == <<players, planters, phase, roundIdx, rd, sides, sidesA, n, ev,
          ratedK, ratedD, aliveK, aliveD, aliveA, resK, resD, aux>>

----------------------------------------------------------------------------
(* Bounds of the model *)

\* rounds of the replayed match
MaxRounds == 2
\* events of one round's timeline
MaxKills == 6
\* rounds of a match whose sides are resolved (both halves)
SidesRounds == 14

(* Program constants *)

InitialAlive == 5
HalfRounds == 12
PostRoundMillis == 100000
ProbOne == 100
ProbDefault == 50
ModifierDefault == 100

NoValue == "None"
Truthy(x) == x # NoValue /\ x # ""

Min(S) == CHOOSE x \in S : \A y \in S : x <= y
Abs(x) == IF x < 0 THEN -x ELSE x

\* the empty dict
EmptyDict == [k \in {} |-> k]

\* dict.get(key, default)
Get(d, key, default) == IF key \in DOMAIN d THEN d[key] ELSE default

----------------------------------------------------------------------------
(* Side resolver *)

OtherTeam(team) == IF team = "Red" THEN "Blue" ELSE "Red"

\* the first player of the roster with this puuid (0 when there is none)
PlayerIndex(puuid, ps) ==
    LET hits == {i \in 1..Len(ps) : ps[i].puuid = puuid}
    IN IF hits = {} THEN 0 ELSE Min(hits)

\* the planter rule without the halftime swap
SidesOfPlanterNoSwap(team, current_round) ==
    <<team, OtherTeam(team)>>

\* planter's team attacks in the first half and defends in the second
SidesOfPlanter(team, current_round) ==
    IF current_round < HalfRounds
    THEN <<team, OtherTeam(team)>>
    ELSE <<OtherTeam(team), team>>

\* the search over the first twelve rounds whatever the current round's half
SearchFirstHalf(current_round, len) ==
    0..((IF HalfRounds < len THEN HalfRounds ELSE len) - 1)

\* rounds of the current round's half, searched in order
SearchRounds(current_round, len) ==
    IF current_round < HalfRounds
    THEN 0..((IF HalfRounds < len THEN HalfRounds ELSE len) - 1)
    ELSE HalfRounds..(len - 1)

\* the inner loop over players of the search: it returns at its first
\* iteration, by the planter rule when that player is the planter and with
\* that player's team as attacker otherwise
SidesOfSearchedPlanter(planter, current_round, ps) ==
    IF ps[1].puuid = planter
    THEN SidesOfPlanter(ps[1].teamId, current_round)
    ELSE <<ps[1].teamId, OtherTeam(ps[1].teamId)>>

\* _determine_sides of kill_contrib / death_contrib; rounds is the
\* sequence of bombPlanter values of match['roundResults']
DetermineSides(rounds, current_round, planter, ps) ==
    LET planted == {r \in SearchRounds(current_round, Len(rounds)) :
                        Truthy(rounds[r + 1])}
    IN IF Truthy(planter) /\ PlayerIndex(planter, ps) # 0
       THEN SidesOfPlanter(ps[PlayerIndex(planter, ps)].teamId, current_round)
       ELSE IF planted # {} /\ Len(ps) > 0
       THEN SidesOfSearchedPlanter(rounds[Min(planted) + 1], current_round, ps)
       ELSE <<"Blue", "Red">>

\* _determine_sides of adra: no halftime swap, first twelve rounds searched
AdraDetermineSides(rounds, planter, ps) ==
    LET first == {r \in 0..((IF HalfRounds < Len(rounds) THEN HalfRounds ELSE Len(rounds)) - 1) :
                      Truthy(rounds[r + 1]) /\ PlayerIndex(rounds[r + 1], ps) # 0}
    IN IF Truthy(planter) /\ PlayerIndex(planter, ps) # 0
       THEN <<ps[PlayerIndex(planter, ps)].teamId,
              OtherTeam(ps[PlayerIndex(planter, ps)].teamId)>>
       ELSE IF first # {}
       THEN <<ps[PlayerIndex(rounds[Min(first) + 1], ps)].teamId,
              OtherTeam(ps[PlayerIndex(rounds[Min(first) + 1], ps)].teamId)>>
       ELSE <<"Blue", "Red">>

\* the lookup that takes a puuid absent from the roster for an attacker
GetTeamUnknownAsAtk(puuid, ps, atk_team, def_team) ==
    LET hits == {i \in 1..Len(ps) : ps[i].puuid = puuid
                                    /\ ps[i].teamId \in {atk_team, def_team}}
    IN IF hits = {} THEN "atk"
       ELSE IF ps[Min(hits)].teamId = atk_team THEN "atk" ELSE "def"

\* _get_team_from_puuid: "atk", "def" or None
GetTeamFromPuuid(puuid, ps, atk_team, def_team) ==
    LET hits == {i \in 1..Len(ps) : ps[i].puuid = puuid
                                    /\ ps[i].teamId \in {atk_team, def_team}}
    IN IF hits = {} THEN NoValue
       ELSE IF ps[Min(hits)].teamId = atk_team THEN "atk" ELSE "def"

----------------------------------------------------------------------------
(* Win-probability lookup and terminal override *)

\* _get_xvx_key
GetXvxKey(left, right) == <<left, right>>

\* the key left as it is
SameXvxKey(xvx_key) == xvx_key

\* _get_inverse_xvx_key
GetInverseXvxKey(xvx_key) == <<xvx_key[2], xvx_key[1]>>

\* '0' in xvx_key (the counts are single digits)
HasZero(xvx_key) == xvx_key[1] = 0 \/ xvx_key[2] = 0

\* the lookup with 0 in place of the 0.5 fallback
WinProbabilityFallbackZero(xvx_key, spike_planted, xvx_data, killer_is_attacker) ==
    LET wp == Get(xvx_data, "win_probabilities", EmptyDict)
        table == IF spike_planted THEN Get(wp, "atk_spike", EmptyDict)
                                  ELSE Get(wp, "atk_no_spike", EmptyDict)
    IN IF killer_is_attacker
       THEN Get(table, xvx_key, 0)
       ELSE ProbOne - Get(table, GetInverseXvxKey(xvx_key), 0)

\* _get_win_probability_killer_perspective
WinProbability(xvx_key, spike_planted, xvx_data, killer_is_attacker) ==
    LET wp == Get(xvx_data, "win_probabilities", EmptyDict)
        table == IF spike_planted THEN Get(wp, "atk_spike", EmptyDict)
                                  ELSE Get(wp, "atk_no_spike", EmptyDict)
    IN IF killer_is_attacker
       THEN Get(table, xvx_key, ProbDefault)
       ELSE ProbOne - Get(table, GetInverseXvxKey(xvx_key), ProbDefault)

\* winner_was_attacker of _adjust_win_for_outcome: "True", "False" or None
WinnerWasAttacker(killer_is_attacker, round_outcome) ==
    IF round_outcome.plantRoundTime = {} THEN NoValue
    ELSE IF round_outcome.roundEndReason = "Elimination"
    THEN (IF killer_is_attacker THEN "True" ELSE "False")
    ELSE IF round_outcome.roundEndReason = "Defuse" THEN "False"
    ELSE IF round_outcome.roundEndReason = "Detonate" THEN "True"
    ELSE NoValue

\* the adjustment without the check that the round records a winning team
AdjustWinWithoutWinner(xvx_key, killer_is_attacker, round_outcome) ==
    LET winner == WinnerWasAttacker(killer_is_attacker, round_outcome)
        mine == IF killer_is_attacker THEN ProbOne ELSE 0
        other == IF killer_is_attacker THEN 0 ELSE ProbOne
    IN IF ~HasZero(xvx_key) THEN << >>
       ELSE IF winner = NoValue THEN << >>
       ELSE IF winner = "True" THEN <<mine>> ELSE <<other>>

\* _adjust_win_for_outcome: << >> for None, <<p>> for an adjusted probability
AdjustWinForOutcome(xvx_key, killer_is_attacker, round_outcome) ==
    LET winner == WinnerWasAttacker(killer_is_attacker, round_outcome)
        mine == IF killer_is_attacker THEN ProbOne ELSE 0
        other == IF killer_is_attacker THEN 0 ELSE ProbOne
    IN IF ~HasZero(xvx_key) THEN << >>
       ELSE IF ~Truthy(round_outcome.winningTeam) THEN << >>
       ELSE IF winner = NoValue THEN << >>
       ELSE IF xvx_key[2] = 0
       THEN (IF winner = "True" THEN <<mine>> ELSE <<other>>)
       ELSE IF xvx_key[1] = 0
       THEN (IF winner = "True" THEN <<mine>> ELSE <<other>>)
       ELSE << >>

----------------------------------------------------------------------------
(* Economic modifier *)

\* _get_economy_category
GetEconomyCategory(individual_loadout) ==
    IF individual_loadout <= 1500 THEN "Save Round"
    ELSE IF individual_loadout <= 4000 THEN "Eco Round"
    ELSE IF individual_loadout <= 7500 THEN "Force Buy"
    ELSE IF individual_loadout <= 10000 THEN "Anti-Eco"
    ELSE IF individual_loadout <= 15000 THEN "Full Buy"
    ELSE "Operator Buy"

\* the matchup key with the two categories swapped
CalculateEconomicModifierSwapped(killer_loadout, victim_loadout, economic_data) ==
    LET matchup == <<GetEconomyCategory(victim_loadout),
                     GetEconomyCategory(killer_loadout)>>
    IN IF "economy_categories" \notin DOMAIN economic_data THEN ModifierDefault
       ELSE IF matchup \in DOMAIN economic_data.economy_categories
       THEN 2 * (ProbOne - economic_data.economy_categories[matchup].win_rate)
       ELSE ModifierDefault

\* _calculate_economic_modifier: 2 * (1 - win_rate), in hundredths
CalculateEconomicModifier(killer_loadout, victim_loadout, economic_data) ==
    LET matchup == <<GetEconomyCategory(killer_loadout),
                     GetEconomyCategory(victim_loadout)>>
    IN IF "economy_categories" \notin DOMAIN economic_data THEN ModifierDefault
       ELSE IF matchup \in DOMAIN economic_data.economy_categories
       THEN 2 * (ProbOne - economic_data.economy_categories[matchup].win_rate)
       ELSE ModifierDefault

\* _get_player_loadout: the player's loadoutValue in the round's playerStats
GetPlayerLoadout(puuid, round_data) ==
    Get(round_data.loadoutValue, puuid, 0)

----------------------------------------------------------------------------
(* Input data *)

Puuids == {"p1", "p2", "x"}
\* the kills of a round are recorded KillSpacing ms apart
KillSpacing == 25000
DamageTypes == {"Bullet", "Bomb"}

\* the kill records of playerStats[..]['kills'] drawn for the timeline: the
\* two enemy kills, shot or by the spike, a kill on the killer's own side, a
\* killer and a victim that are not in the roster
Kills(time) ==
    {k \in [killer : Puuids, victim : Puuids, time : {time}, damageType : DamageTypes] :
        \/ k.killer # "x" /\ k.victim # "x" /\ k.killer # k.victim
        \/ k.damageType = "Bullet" /\ <<k.killer, k.victim>> \in
               {<<"p1", "p1">>, <<"x", "p1">>, <<"p1", "x">>}}
NoKill == [killer |-> NoValue, victim |-> NoValue, time |-> 0, damageType |-> NoValue]

Rosters ==
    { << [puuid |-> "p1", teamId |-> "Blue"], [puuid |-> "p2", teamId |-> "Red"] >> }

\* bombPlanter of each round of a match: no plant at all, or a first plant in
\* the last round
Matches ==
    { [r \in 1..MaxRounds |-> NoValue],
      [r \in 1..MaxRounds |-> IF r = MaxRounds THEN "p2" ELSE NoValue] }

\* the players the two calculators are called for
RatedPairs == {<<"p1", "p1">>, <<"p1", "p2">>}

Rated(ps) == {ps[i].puuid : i \in 1..Len(ps)}

\* plantRoundTime (absent or set), roundEndReason and winningTeam of a round
RoundOutcomes ==
    { <<{}, "Elimination", "Blue">>, <<{20000}, "Elimination", "Blue">>,
      <<{20000}, "Defuse", "Blue">>, <<{20000}, "Detonate", "Blue">>,
      <<{20000}, "", "Blue">>, <<{20000}, "Elimination", NoValue>> }
\* economy.loadoutValue of the players' playerStats entries of a round
LoadoutChoices ==
    { [p \in {"p1", "p2"} |-> 5000],
      [p \in {"p1", "p2"} |-> IF p = "p1" THEN 1000 ELSE 5000] }

XvxKeys == (0..InitialAlive) \X (0..InitialAlive)

\* the win-probability table, attacker's perspective; atk_no_spike has no
\* entry for a state with an eliminated side
XvxData ==
    [win_probabilities |->
        [atk_spike |-> [k \in XvxKeys |-> 40 + 10 * k[1] - 6 * k[2]],
         atk_no_spike |-> [k \in (1..InitialAlive) \X (1..InitialAlive) |->
                              35 + 8 * k[1] - 5 * k[2]]]]

\* the economy table
EconomicData ==
    [economy_categories |->
        [m \in {<<"Save Round", "Force Buy">>, <<"Force Buy", "Save Round">>} |->
            [win_rate |-> IF m[1] = "Save Round" THEN 25 ELSE 75]]]

----------------------------------------------------------------------------
(* Round replay *)

StartAlive == [atk |-> InitialAlive, def |-> InitialAlive]

\* the entry calculate_kill_contrib appends to all_kills
KillEntry(kill) == [killer |-> kill.killer, victim |-> kill.victim, time |-> kill.time]

\* the entry calculate_death_contrib appends to all_kills
DeathEntry(kill) ==
    [killer |-> kill.killer, victim |-> kill.victim, time |-> kill.time,
     finishingDamage |-> [damageType |-> kill.damageType]]

\* kill.get('finishingDamage', {}).get('damageType') == 'Bomb'
IsBomb(entry) ==
    Get(Get(entry, "finishingDamage", EmptyDict), "damageType", NoValue) = "Bomb"

\* the decrement without its alive[victim_team] > 0 guard
DecrementVictimUnguarded(alive, victim_team) ==
    IF victim_team # NoValue
    THEN [alive EXCEPT ![victim_team] = @ - 1]
    ELSE alive

\* if victim_team and alive[victim_team] > 0: alive[victim_team] -= 1
DecrementVictim(alive, victim_team) ==
    IF victim_team # NoValue /\ alive[victim_team] > 0
    THEN [alive EXCEPT ![victim_team] = @ - 1]
    ELSE alive

Skipped(before, alive) ==
    [before |-> before, alive |-> alive, scored |-> FALSE,
     pre |-> 0, post |-> 0, mod |-> 0, impact |-> 0]

\* the scored path without the forced sign of a death
ScoreOnUnforced(xvx_data, economic_data, alive, own, victim_team, killer_team, atk_team, kill, round_data, sign) ==
    LET \* killer_is_attacker = (killer_team == atk_team): a side designation
        \* ('atk' / 'def') compared with a team label
        is_attacker == (own = atk_team)
        opp == IF own = victim_team THEN killer_team ELSE victim_team
        before == WinProbability(GetXvxKey(alive[own], alive[opp]),
                                 round_data.plantRoundTime # {}, xvx_data, is_attacker)
        after_alive == [alive EXCEPT ![victim_team] = @ - 1]
        xvx_after == GetXvxKey(after_alive[own], after_alive[opp])
        looked == WinProbability(xvx_after, round_data.plantRoundTime # {},
                                 xvx_data, is_attacker)
        adjusted == AdjustWinForOutcome(xvx_after, is_attacker, round_data)
        after == IF adjusted # << >> THEN adjusted[1] ELSE looked
        modifier == CalculateEconomicModifier(GetPlayerLoadout(kill.killer, round_data),
                                              GetPlayerLoadout(kill.victim, round_data),
                                              economic_data)
        raw == (after - before) * modifier
        impact == raw
    IN [before |-> alive, alive |-> after_alive, scored |-> TRUE,
        pre |-> before, post |-> after, mod |-> modifier, impact |-> impact]

\* the scored path with the spike sub-table chosen by the event's time
ScoreOnSpikeAtEventTime(xvx_data, economic_data, alive, own, victim_team, killer_team, atk_team, kill, round_data, sign) ==
    LET \* killer_is_attacker = (killer_team == atk_team): a side designation
        \* ('atk' / 'def') compared with a team label
        is_attacker == (own = atk_team)
        spike_planted == \E t \in round_data.plantRoundTime : kill.time >= t
        opp == IF own = victim_team THEN killer_team ELSE victim_team
        before == WinProbability(GetXvxKey(alive[own], alive[opp]),
                                 spike_planted, xvx_data, is_attacker)
        after_alive == [alive EXCEPT ![victim_team] = @ - 1]
        xvx_after == GetXvxKey(after_alive[own], after_alive[opp])
        looked == WinProbability(xvx_after, spike_planted,
                                 xvx_data, is_attacker)
        adjusted == AdjustWinForOutcome(xvx_after, is_attacker, round_data)
        after == IF adjusted # << >> THEN adjusted[1] ELSE looked
        modifier == CalculateEconomicModifier(GetPlayerLoadout(kill.killer, round_data),
                                              GetPlayerLoadout(kill.victim, round_data),
                                              economic_data)
        raw == (after - before) * modifier
        impact == IF sign = "death" THEN -Abs(raw) ELSE raw
    IN [before |-> alive, alive |-> after_alive, scored |-> TRUE,
        pre |-> before, post |-> after, mod |-> modifier, impact |-> impact]

\* the scored path shared by both calculators, on the tables xvx_data and
\* economic_data: own is the side of the player whose perspective is taken,
\* victim_team the side that loses a player
ScoreOn(xvx_data, economic_data, alive, own, victim_team, killer_team, atk_team, kill, round_data, sign) ==
    LET \* killer_is_attacker = (killer_team == atk_team): a side designation
        \* ('atk' / 'def') compared with a team label
        is_attacker == (own = atk_team)
        opp == IF own = victim_team THEN killer_team ELSE victim_team
        before == WinProbability(GetXvxKey(alive[own], alive[opp]),
                                 round_data.plantRoundTime # {}, xvx_data, is_attacker)
        after_alive == [alive EXCEPT ![victim_team] = @ - 1]
        xvx_after == GetXvxKey(after_alive[own], after_alive[opp])
        looked == WinProbability(xvx_after, round_data.plantRoundTime # {},
                                 xvx_data, is_attacker)
        adjusted == AdjustWinForOutcome(xvx_after, is_attacker, round_data)
        after == IF adjusted # << >> THEN adjusted[1] ELSE looked
        modifier == CalculateEconomicModifier(GetPlayerLoadout(kill.killer, round_data),
                                              GetPlayerLoadout(kill.victim, round_data),
                                              economic_data)
        raw == (after - before) * modifier
        impact == IF sign = "death" THEN -Abs(raw) ELSE raw
    IN [before |-> alive, alive |-> after_alive, scored |-> TRUE,
        pre |-> before, post |-> after, mod |-> modifier, impact |-> impact]

\* the scored path on the tables of the replays
Score(alive, own, victim_team, killer_team, atk_team, kill, round_data, sign) ==
    ScoreOn(XvxData, EconomicData, alive, own, victim_team, killer_team, atk_team,
            kill, round_data, sign)

\* one iteration of the timeline loop of calculate_kill_contrib(player puuid)
\* called with the tables xvx_data and economic_data
KillStepOn(xvx_data, economic_data, alive, kill, puuid, ps, atk_team, def_team, round_data) ==
    LET killer_team == GetTeamFromPuuid(kill.killer, ps, atk_team, def_team)
        victim_team == GetTeamFromPuuid(kill.victim, ps, atk_team, def_team)
    IN IF IsBomb(kill) THEN Skipped(alive, DecrementVictim(alive, victim_team))
       ELSE IF kill.killer # puuid
       THEN Skipped(alive, DecrementVictim(alive, victim_team))
       ELSE IF killer_team = NoValue \/ victim_team = NoValue \/ killer_team = victim_team
       THEN Skipped(alive, alive)
       ELSE IF alive[victim_team] = 0 \/ alive[killer_team] = 0
       THEN Skipped(alive, alive)
       ELSE ScoreOn(xvx_data, economic_data, alive, killer_team, victim_team,
                    killer_team, atk_team, kill, round_data, "kill")

\* that iteration on the tables of the replays
KillStep(alive, kill, puuid, ps, atk_team, def_team, round_data) ==
    KillStepOn(XvxData, EconomicData, alive, kill, puuid, ps, atk_team, def_team,
               round_data)

\* one iteration of the timeline loop of calculate_death_contrib(player puuid)
\* called with the tables xvx_data and economic_data
DeathStepOn(xvx_data, economic_data, alive, kill, puuid, ps, atk_team, def_team, round_data) ==
    LET killer_team == GetTeamFromPuuid(kill.killer, ps, atk_team, def_team)
        victim_team == GetTeamFromPuuid(kill.victim, ps, atk_team, def_team)
    IN IF IsBomb(kill) THEN Skipped(alive, DecrementVictim(alive, victim_team))
       ELSE IF kill.victim # puuid
       THEN Skipped(alive, DecrementVictim(alive, victim_team))
       ELSE IF killer_team = NoValue \/ victim_team = NoValue \/ killer_team = victim_team
       THEN Skipped(alive, alive)
       ELSE IF alive[victim_team] = 0 \/ alive[killer_team] = 0
       THEN Skipped(alive, alive)
       ELSE ScoreOn(xvx_data, economic_data, alive, victim_team, victim_team,
                    killer_team, atk_team, kill, round_data, "death")

\* that iteration on the tables of the replays
DeathStep(alive, kill, puuid, ps, atk_team, def_team, round_data) ==
    DeathStepOn(XvxData, EconomicData, alive, kill, puuid, ps, atk_team, def_team,
                round_data)

\* one iteration of the loop of _calculate_xvx_impacts (adra): the alive counts
XvxImpactsStep(alive, kill, ps, atk_team, def_team) ==
    LET killer_team == GetTeamFromPuuid(kill.killer, ps, atk_team, def_team)
        victim_team == GetTeamFromPuuid(kill.victim, ps, atk_team, def_team)
    IN IF killer_team = NoValue \/ victim_team = NoValue THEN alive
       ELSE IF alive[victim_team] = 0 THEN alive
       ELSE IF alive[killer_team] = 0 THEN alive
       ELSE [alive EXCEPT ![victim_team] = @ - 1]

----------------------------------------------------------------------------
(* The calculation over a match *)

NoResult ==
    [before |-> StartAlive, alive |-> StartAlive, scored |-> FALSE,
     pre |-> 0, post |-> 0, mod |-> 0, impact |-> 0]

RoundData(num, planter, plant, reason, winner, loadout) ==
    [roundNum |-> num, bombPlanter |-> planter, plantRoundTime |-> plant,
     roundEndReason |-> reason, winningTeam |-> winner, loadoutValue |-> loadout]

NoRound == RoundData(0, NoValue, {}, "", NoValue, EmptyDict)

\* the helper calls and the aggregator have not run
AuxIdle ==
    /\ cutoff = {}
    /\ timeline = << >>
    /\ totalK = 0
    /\ totalD = 0
    /\ input = NoValue
    /\ output = NoValue
    /\ registry = {}
    /\ pos = NoValue

Init ==
    /\ players \in Rosters
    /\ planters \in Matches
    /\ phase = "rounds"
    /\ roundIdx = 0
    /\ rd = NoRound
    /\ sides = <<"Blue", "Red">>
    /\ sidesA = <<"Blue", "Red">>
    /\ n = 0
    /\ ev = NoKill
    /\ \E pair \in RatedPairs : ratedK = pair[1] /\ ratedD = pair[2]
    /\ aliveK = StartAlive
    /\ aliveD = StartAlive
    /\ aliveA = StartAlive
    /\ resK = NoResult
    /\ resD = NoResult
    /\ AuxIdle

\* for round_data in rounds: the round's setup up to the reset of alive
StartRound ==
    /\ phase = "rounds"
    /\ roundIdx < Len(planters)
    /\ \E o \in RoundOutcomes, loadout \in LoadoutChoices :
          rd' = RoundData(roundIdx, planters[roundIdx + 1], o[1], o[2], o[3], loadout)
    /\ sides' = DetermineSides(planters, roundIdx, planters[roundIdx + 1], players)
    /\ sidesA' = AdraDetermineSides(planters, planters[roundIdx + 1], players)
    /\ phase' = "replay"
    /\ n' = 0
    /\ ev' = NoKill
    /\ aliveK' = StartAlive
    /\ aliveD' = StartAlive
    /\ aliveA' = StartAlive
    /\ resK' = NoResult
    /\ resD' = NoResult
    /\ UNCHANGED <<players, planters, roundIdx, ratedK, ratedD, aux>>

\* for kill in all_kills: the next event of the timeline, replayed by each
\* of the calls
ProcessKill ==
    /\ phase = "replay"
    /\ n < MaxKills
    /\ \E kill \in Kills(ev.time + KillSpacing) :
          /\ ev' = kill
          /\ resK' = KillStep(aliveK, KillEntry(kill), ratedK,
                              players, sides[1], sides[2], rd)
          /\ resD' = DeathStep(aliveD, DeathEntry(kill), ratedD,
                               players, sides[1], sides[2], rd)
          /\ aliveA' = XvxImpactsStep(aliveA, kill, players, sidesA[1], sidesA[2])
    /\ aliveK' = resK'.alive
    /\ aliveD' = resD'.alive
    /\ n' = n + 1
    /\ UNCHANGED <<players, planters, phase, roundIdx, rd, sides, sidesA, ratedK, ratedD, aux>>

\* the timeline is exhausted: on to the next round
EndRound ==
    /\ phase = "replay"
    /\ phase' = "rounds"
    /\ roundIdx' = roundIdx + 1
    /\ UNCHANGED <<players, planters, rd, sides, sidesA, n, ev, ratedK, ratedD,
                   aliveK, aliveD, aliveA, resK, resD, aux>>

\* return total_kill_contrib / total_death_contrib
Return ==
    /\ phase = "rounds"
    /\ roundIdx = Len(planters)
    /\ phase' = "done"
    /\ UNCHANGED <<players, planters, roundIdx, rd, sides, sidesA, n, ev,
                   ratedK, ratedD, aliveK, aliveD, aliveA, resK, resD, aux>>

Next == StartRound \/ ProcessKill \/ EndRound \/ Return

Spec == Init /\ [][Next]_vars

----------------------------------------------------------------------------
(* The side resolver over a whole match: the same calculation on matches   *)
(* of SidesRounds rounds whose rounds record no kill, for every order and   *)
(* team assignment of the roster.                                          *)

SidesRosters ==
    { << [puuid |-> o[1], teamId |-> ta], [puuid |-> o[2], teamId |-> tb] >> :
         o \in {<<"p1", "p2">>, <<"p2", "p1">>},
         ta \in {"Blue", "Red"}, tb \in {"Blue", "Red"} }

\* the rounds that may record a planter: the first two, the last of the
\* first half, the first and the last of the second half
PlantedRounds == {1, 2, HalfRounds, HalfRounds + 1, SidesRounds}

SidesMatches ==
    { [r \in 1..SidesRounds |-> IF r = i THEN a ELSE IF r = j THEN b ELSE NoValue] :
         i \in PlantedRounds, j \in PlantedRounds,
         a \in {NoValue, "p1", "p2", "x"}, b \in {NoValue, "p1", "p2", "x"} }

InitSides ==
    /\ players \in SidesRosters
    /\ planters \in SidesMatches
    /\ phase = "rounds"
    /\ roundIdx = 0
    /\ rd = NoRound
    /\ sides = <<"Blue", "Red">>
    /\ sidesA = <<"Blue", "Red">>
    /\ n = 0
    /\ ev = NoKill
    /\ ratedK = "p1"
    /\ ratedD = "p1"
    /\ aliveK = StartAlive
    /\ aliveD = StartAlive
    /\ aliveA = StartAlive
    /\ resK = NoResult
    /\ resD = NoResult
    /\ AuxIdle

NextSides == StartRound \/ EndRound \/ Return

SpecSides == InitSides /\ [][NextSides]_vars

----------------------------------------------------------------------------
(* Round timeline builder: the cutoff, the filter and the sort of one      *)
(* round of calculate_kill_contrib and calculate_death_contrib, and the    *)
(* replay of the built timeline.                                           *)

\* kill records of one round's playerStats
MaxRecords == 3

SpikeTimerMillis == 45000

\* the time of the first recorded kill instead of the last one
FirstRecordedKillTime(kills) ==
    IF kills = << >> THEN 0 ELSE kills[1].time

\* max of the kill times, starting from last_kill_time = 0
LastKillTime(kills) ==
    LET times == {kills[i].time : i \in 1..Len(kills)} \cup {0}
    IN CHOOSE t \in times : \A u \in times : u <= t

\* _get_effective_round_end_time: {} for None, {t} for a time
EffectiveRoundEndTime(round_data) ==
    LET round_result_code == Get(round_data, "roundResultCode", NoValue)
        last_kill_time == LastKillTime(Get(round_data, "kills", << >>))
        plant_time == Get(round_data, "plantRoundTime", {})
    IN IF round_result_code = "Defuse"
       THEN Get(round_data, "defuseRoundTime", {})
       ELSE IF round_result_code = "Elimination"
       THEN (IF last_kill_time > 0 THEN {last_kill_time} ELSE {})
       ELSE IF round_result_code = "Detonate"
       THEN {t + SpikeTimerMillis : t \in plant_time}
       ELSE {}

\* the comparison with < in place of <=
StrictlyWithinCutoff(end_time, kill_time) ==
    end_time = {} \/ \A t \in end_time : kill_time < t

\* effective_round_end_time is None or kill_time <= effective_round_end_time
WithinCutoff(end_time, kill_time) ==
    end_time = {} \/ \A t \in end_time : kill_time <= t

\* the kills appended to all_kills, in record order
FilterKills(kills, end_time) ==
    SelectSeq(kills, LAMBDA k : WithinCutoff(end_time, k.time))

\* one insertion of the stable sort: after every entry that is not later
InsertByTime(sorted, kill) ==
    LET before == SelectSeq(sorted, LAMBDA k : k.time <= kill.time)
        after == SelectSeq(sorted, LAMBDA k : k.time > kill.time)
    IN before \o <<kill>> \o after

RECURSIVE SortByTime(_)
\* all_kills.sort(key=lambda k: k['time'])
SortByTime(kills) ==
    IF kills = << >> THEN << >>
    ELSE InsertByTime(SortByTime(SubSeq(kills, 1, Len(kills) - 1)), kills[Len(kills)])

\* times of the recorded kills: before, at and after the cutoffs
KillTimes == {20000, 50000, 60000}

\* one kill record of a round
RecordedKills ==
    [killer : {"p1"}, victim : {"p2"}, time : KillTimes, damageType : {"Bullet"}]
    \cup [killer : {"p2"}, victim : {"p1"}, time : KillTimes, damageType : {"Bullet"}]

\* the kills of a round in record order
RecordLists == UNION {[1..len -> RecordedKills] : len \in 0..MaxRecords}

\* roundResultCode, plantRoundTime and defuseRoundTime of a round
TimelineOutcomes ==
    { <<"Elimination", {}, {}>>, <<"Elimination", {5000}, {}>>,
      <<"Defuse", {5000}, {20000}>>, <<"Detonate", {5000}, {}>>,
      <<"", {}, {}>> }

\* round_data with its result code, its defuse time and its kill records
TimelineRoundData(code, plant, defuse, kills, loadout) ==
    [roundNum |-> 0, bombPlanter |-> NoValue, plantRoundTime |-> plant,
     roundEndReason |-> code, winningTeam |-> "Blue", loadoutValue |-> loadout,
     roundResultCode |-> code, defuseRoundTime |-> defuse, kills |-> kills]

InitTimeline ==
    /\ players \in Rosters
    /\ planters = <<NoValue>>
    /\ phase = "rounds"
    /\ roundIdx = 0
    /\ \E o \in TimelineOutcomes, kills \in RecordLists :
          rd = TimelineRoundData(o[1], o[2], o[3], kills, [p \in {"p1", "p2"} |-> 5000])
    /\ sides = <<"Blue", "Red">>
    /\ sidesA = <<"Blue", "Red">>
    /\ n = 0
    /\ ev = NoKill
    /\ \E pair \in RatedPairs : ratedK = pair[1] /\ ratedD = pair[2]
    /\ aliveK = StartAlive
    /\ aliveD = StartAlive
    /\ aliveA = StartAlive
    /\ resK = NoResult
    /\ resD = NoResult
    /\ AuxIdle

\* the round's setup: sides, cutoff, all_kills filtered and sorted, alive
BuildTimeline ==
    /\ phase = "rounds"
    /\ roundIdx < Len(planters)
    /\ sides' = DetermineSides(planters, roundIdx, rd.bombPlanter, players)
    /\ cutoff' = EffectiveRoundEndTime(rd)
    /\ timeline' = SortByTime(FilterKills(rd.kills, cutoff'))
    /\ phase' = "replay"
    /\ n' = 0
    /\ ev' = NoKill
    /\ aliveK' = StartAlive
    /\ aliveD' = StartAlive
    /\ resK' = NoResult
    /\ resD' = NoResult
    /\ UNCHANGED <<players, planters, roundIdx, rd, sidesA, ratedK, ratedD, aliveA,
                   totalK, totalD, input, output, registry, pos>>

\* for kill in all_kills: the next entry of the built timeline
ReplayKill ==
    /\ phase = "replay"
    /\ n < Len(timeline)
    /\ ev' = timeline[n + 1]
    /\ resK' = KillStep(aliveK, KillEntry(ev'), ratedK, players, sides[1], sides[2], rd)
    /\ resD' = DeathStep(aliveD, DeathEntry(ev'), ratedD, players, sides[1], sides[2], rd)
    /\ aliveK' = resK'.alive
    /\ aliveD' = resD'.alive
    /\ totalK' = totalK + resK'.impact
    /\ totalD' = totalD + resD'.impact
    /\ n' = n + 1
    /\ UNCHANGED <<players, planters, phase, roundIdx, rd, sides, sidesA, ratedK, ratedD,
                   aliveA, cutoff, timeline, input, output, registry, pos>>

\* the timeline is exhausted: on to the next round
EndTimeline ==
    /\ phase = "replay"
    /\ n = Len(timeline)
    /\ phase' = "rounds"
    /\ roundIdx' = roundIdx + 1
    /\ UNCHANGED <<players, planters, rd, sides, sidesA, n, ev, ratedK, ratedD,
                   aliveK, aliveD, aliveA, resK, resD, aux>>

NextTimeline == BuildTimeline \/ ReplayKill \/ EndTimeline \/ Return

SpecTimeline == InitTimeline /\ [][NextTimeline]_vars

----------------------------------------------------------------------------
(* The win-probability lookup called for both perspectives of one alive    *)
(* state.                                                                  *)

\* state of the round replays
engine == <<players, planters, phase, roundIdx, rd, sides, sidesA, n, ev,
            ratedK, ratedD, aliveK, aliveD, aliveA, resK, resD>>

\* no round is being replayed
EngineIdle ==
    /\ players \in Rosters
    /\ planters = <<NoValue>>
    /\ phase = "call"
    /\ roundIdx = 0
    /\ rd = NoRound
    /\ sides = <<"Blue", "Red">>
    /\ sidesA = <<"Blue", "Red">>
    /\ n = 0
    /\ ev = NoKill
    /\ ratedK = "p1"
    /\ ratedD = "p1"
    /\ aliveK = StartAlive
    /\ aliveD = StartAlive
    /\ aliveA = StartAlive
    /\ resK = NoResult
    /\ resD = NoResult

\* xvx_data: the table of the replays, a table without its atk_spike
\* sub-table, a table whose probabilities are all 0 or 1, and no table
LookupTables ==
    { XvxData,
      [win_probabilities |-> [atk_no_spike |-> XvxData.win_probabilities.atk_no_spike]],
      [win_probabilities |->
          [atk_spike |-> [k \in XvxKeys |-> IF k[1] >= k[2] THEN ProbOne ELSE 0],
           atk_no_spike |-> [k \in XvxKeys |-> IF k[1] > k[2] THEN ProbOne ELSE 0]]],
      EmptyDict }

InitLookup ==
    /\ EngineIdle
    /\ cutoff = {}
    /\ timeline = << >>
    /\ totalK = 0
    /\ totalD = 0
    /\ input \in [alive : [atk : 0..InitialAlive, def : 0..InitialAlive],
                  spike_planted : BOOLEAN, xvx_data : LookupTables]
    /\ output = [atk |-> {}, def |-> {}]
    /\ registry = {}
    /\ pos = NoValue

\* the call for a player of the attacking side: key '{atk}v{def}'
LookupAsAttacker ==
    /\ phase = "call"
    /\ output.atk = {}
    /\ output' = [output EXCEPT !.atk =
          {WinProbability(GetXvxKey(input.alive.atk, input.alive.def),
                          input.spike_planted, input.xvx_data, TRUE)}]
    /\ UNCHANGED <<engine, cutoff, timeline, totalK, totalD, input, registry, pos>>

\* the call for a player of the defending side: key '{def}v{atk}'
LookupAsDefender ==
    /\ phase = "call"
    /\ output.def = {}
    /\ output' = [output EXCEPT !.def =
          {WinProbability(GetXvxKey(input.alive.def, input.alive.atk),
                          input.spike_planted, input.xvx_data, FALSE)}]
    /\ UNCHANGED <<engine, cutoff, timeline, totalK, totalD, input, registry, pos>>

NextLookup == LookupAsAttacker \/ LookupAsDefender

SpecLookup == InitLookup /\ [][NextLookup]_vars

----------------------------------------------------------------------------
(* The economic modifier: called on its own, and as the two calculators    *)
(* call it for the first kill of a round between players of two-player     *)
(* sides.                                                                  *)

\* loadout values at and next to the category thresholds
LoadoutValues ==
    {0, 1500, 1501, 4000, 4001, 7500, 7501, 10000, 10001, 15000, 15001}

EconomyCategories ==
    <<"Save Round", "Eco Round", "Force Buy", "Anti-Eco", "Full Buy", "Operator Buy">>

\* an economy table with a win rate for each of the 36 matchups
FullEconomicData ==
    [economy_categories |->
        [m \in {<<EconomyCategories[i], EconomyCategories[j]>> : i \in 1..6, j \in 1..6} |->
            [win_rate |-> 50 + 8 * ((CHOOSE i \in 1..6 : EconomyCategories[i] = m[1])
                                    - (CHOOSE j \in 1..6 : EconomyCategories[j] = m[2]))]]]

\* economic_data: the table of the replays, the full table, and no table
EconomicTables == {EconomicData, FullEconomicData, EmptyDict}

EconomyRoster ==
    << [puuid |-> "p1", teamId |-> "Blue"], [puuid |-> "p2", teamId |-> "Red"],
       [puuid |-> "p3", teamId |-> "Blue"], [puuid |-> "p4", teamId |-> "Red"] >>

\* loadoutValue of the round's playerStats: p1's and p2's own values, and
\* 9000 for each of their teammates
EconomyLoadout(own1, own2) ==
    [p \in {"p1", "p2", "p3", "p4"} |->
        IF p = "p1" THEN own1 ELSE IF p = "p2" THEN own2 ELSE 9000]

InitEconomy ==
    /\ players = EconomyRoster
    /\ planters = <<NoValue>>
    /\ phase = "replay"
    /\ roundIdx = 0
    /\ input \in [killer_loadout : LoadoutValues, victim_loadout : LoadoutValues,
                  economic_data : EconomicTables]
    /\ rd = RoundData(0, NoValue, {}, "Elimination", "Blue",
                      EconomyLoadout(input.killer_loadout, input.victim_loadout))
    /\ sides = <<"Blue", "Red">>
    /\ sidesA = <<"Blue", "Red">>
    /\ n = 0
    /\ ev = NoKill
    /\ ratedK = "p1"
    /\ ratedD = "p2"
    /\ aliveK = StartAlive
    /\ aliveD = StartAlive
    /\ aliveA = StartAlive
    /\ resK = NoResult
    /\ resD = NoResult
    /\ cutoff = {}
    /\ timeline = << >>
    /\ totalK = 0
    /\ totalD = 0
    /\ output = {}
    /\ registry = {}
    /\ pos = NoValue

\* _calculate_economic_modifier(killer_loadout, victim_loadout, economic_data)
CallEconomicModifier ==
    /\ output = {}
    /\ output' = {CalculateEconomicModifier(input.killer_loadout, input.victim_loadout,
                                            input.economic_data)}
    /\ UNCHANGED <<engine, cutoff, timeline, totalK, totalD, input, registry, pos>>

\* the first kill of the round, p1 killing p2, scored for its killer by
\* calculate_kill_contrib and for its victim by calculate_death_contrib
ScoreFirstKill ==
    /\ phase = "replay"
    /\ n = 0
    /\ ev' = [killer |-> "p1", victim |-> "p2", time |-> KillSpacing, damageType |-> "Bullet"]
    /\ resK' = KillStep(aliveK, KillEntry(ev'), ratedK, players, sides[1], sides[2], rd)
    /\ resD' = DeathStep(aliveD, DeathEntry(ev'), ratedD, players, sides[1], sides[2], rd)
    /\ aliveK' = resK'.alive
    /\ aliveD' = resD'.alive
    /\ totalK' = totalK + resK'.impact
    /\ totalD' = totalD + resD'.impact
    /\ n' = 1
    /\ UNCHANGED <<players, planters, phase, roundIdx, rd, sides, sidesA, ratedK, ratedD,
                   aliveA, cutoff, timeline, input, output, registry, pos>>

NextEconomy == CallEconomicModifier \/ ScoreFirstKill

SpecEconomy == InitEconomy /\ [][NextEconomy]_vars

----------------------------------------------------------------------------
(* calculate_kill_contrib on a two-round match whose first round is won by *)
(* one attacker killing the five defenders in time order, with no plant    *)
(* and equal loadouts; the second round records no kill.                   *)

ScenarioRoster ==
    << [puuid |-> "a1", teamId |-> "Blue"],
       [puuid |-> "d1", teamId |-> "Red"], [puuid |-> "d2", teamId |-> "Red"],
       [puuid |-> "d3", teamId |-> "Red"], [puuid |-> "d4", teamId |-> "Red"],
       [puuid |-> "d5", teamId |-> "Red"] >>

\* the defenders in the order they are killed
ScenarioVictims == <<"d1", "d2", "d3", "d4", "d5">>

\* bombPlanter of the two rounds: no plant in the match, or a plant by the
\* attacker in the second round
ScenarioMatches == { <<NoValue, NoValue>>, <<NoValue, "a1">> }

\* time between the kills: the last of the five is before 100 s
ScenarioSpacings == {10000, 19000}

\* atk_no_spike with '5v0' = 1.0 and '5v1' = 0.8, the entry of 5v5 being v55
\* and that of 0v5 being the one of the set v05, if any
ScenarioXvxData(v55, v05) ==
    [win_probabilities |->
        [atk_no_spike |->
            [k \in {key \in XvxKeys : key[1] = InitialAlive \/ key[2] = InitialAlive}
                       \ {key \in {<<0, InitialAlive>>} : v05 = {}} |->
                IF k = <<InitialAlive, InitialAlive>> THEN v55
                ELSE IF k = <<0, InitialAlive>> THEN CHOOSE v \in v05 : TRUE
                ELSE IF k[1] = InitialAlive THEN ProbOne - 20 * k[2]
                ELSE 20 * k[1] - 10]]]

ScenarioTables ==
    {ScenarioXvxData(v55, v05) : v55 \in {40, 50, 60}, v05 \in {{}, {0}, {10}}}

InitScenario ==
    /\ players = ScenarioRoster
    /\ planters \in ScenarioMatches
    /\ phase = "rounds"
    /\ roundIdx = 0
    /\ rd = NoRound
    /\ sides = <<"Blue", "Red">>
    /\ sidesA = <<"Blue", "Red">>
    /\ n = 0
    /\ ev = NoKill
    /\ ratedK = "a1"
    /\ ratedD = "a1"
    /\ aliveK = StartAlive
    /\ aliveD = StartAlive
    /\ aliveA = StartAlive
    /\ resK = NoResult
    /\ resD = NoResult
    /\ cutoff = {}
    /\ timeline = << >>
    /\ totalK = 0
    /\ totalD = 0
    /\ input \in [xvx_data : ScenarioTables, spacing : ScenarioSpacings]
    /\ output = NoValue
    /\ registry = {}
    /\ pos = NoValue

\* for round_data in rounds: the round's setup up to the reset of alive
StartScenarioRound ==
    /\ phase = "rounds"
    /\ roundIdx < Len(planters)
    /\ rd' = RoundData(roundIdx, planters[roundIdx + 1],
                       IF Truthy(planters[roundIdx + 1]) THEN {20000} ELSE {},
                       "Elimination", "Blue", [p \in Rated(players) |-> 5000])
    /\ sides' = DetermineSides(planters, roundIdx, planters[roundIdx + 1], players)
    /\ phase' = "replay"
    /\ n' = 0
    /\ ev' = NoKill
    /\ aliveK' = StartAlive
    /\ resK' = NoResult
    /\ UNCHANGED <<players, planters, roundIdx, sidesA, ratedK, ratedD, aliveD, aliveA,
                   resD, aux>>

\* for kill in all_kills, in the first round: the attacker's next kill
ScenarioKill ==
    /\ phase = "replay"
    /\ roundIdx = 0
    /\ n < Len(ScenarioVictims)
    /\ ev' = [killer |-> "a1", victim |-> ScenarioVictims[n + 1],
              time |-> (n + 1) * input.spacing, damageType |-> "Bullet"]
    /\ resK' = KillStepOn(input.xvx_data, EconomicData, aliveK, KillEntry(ev'), ratedK,
                          players, sides[1], sides[2], rd)
    /\ aliveK' = resK'.alive
    /\ totalK' = totalK + resK'.impact
    /\ n' = n + 1
    /\ UNCHANGED <<players, planters, phase, roundIdx, rd, sides, sidesA, ratedK, ratedD,
                   aliveD, aliveA, resD, cutoff, timeline, totalD, input, output,
                   registry, pos>>

\* the round's timeline is exhausted
EndScenarioRound ==
    /\ phase = "replay"
    /\ roundIdx = 0 => n = Len(ScenarioVictims)
    /\ phase' = "rounds"
    /\ roundIdx' = roundIdx + 1
    /\ UNCHANGED <<players, planters, rd, sides, sidesA, n, ev, ratedK, ratedD,
                   aliveK, aliveD, aliveA, resK, resD, aux>>

NextScenario == StartScenarioRound \/ ScenarioKill \/ EndScenarioRound \/ Return

SpecScenario == InitScenario /\ [][NextScenario]_vars

----------------------------------------------------------------------------
(* get_components over a list of matches and the component registry.  A    *)
(* calculator is called once per player and component; whether it raises   *)
(* and what it returns is fixed by the match (input.raises, and            *)
(* CalculatorValue).                                                        *)

\* calls of get_components
MaxCalls == 2

\* the components load_builtin_components registers on import
BuiltinComponents == {"KillContrib", "DeathContrib", "APR", "ADRa"}

\* list_components(): the registered names in one order
ComponentOrder == <<"KillContrib", "DeathContrib", "APR", "ADRa", "Custom">>

ListComponents(reg) == SelectSeq(ComponentOrder, LAMBDA c : c \in reg)

\* the matches of match_data: matchInfo.matchId and players (puuid, isObserver)
MatchM1 ==
    [matchId |-> "m1",
     players |-> << [puuid |-> "p1", isObserver |-> FALSE],
                    [puuid |-> "obs", isObserver |-> TRUE],
                    [puuid |-> "p2", isObserver |-> FALSE] >>]

MatchM2 ==
    [matchId |-> "m2",
     players |-> << [puuid |-> "p2", isObserver |-> FALSE] >>]

MatchLists == { <<MatchM1>>, <<MatchM1, MatchM2>> }

\* component_names: {} for None, or a list of names
ComponentNames == { << >>, <<"ADRa">>, <<"KillContrib", "APR">> }
NamesGiven == {{}} \cup {{names} : names \in ComponentNames}

\* the calls <<matchId, puuid, component>> in which the calculator raises
RaiseSets ==
    { {},
      {<<"m1", "p1", "ADRa">>},
      {<<"m1", "p2", "KillContrib">>, <<"m1", "p2", "APR">>},
      {<<"m1", "p1", c>> : c \in BuiltinComponents} \cup {<<"m2", "p2", "ADRa">>} }

\* what the calculator returns for a player of a match when it does not raise
CalculatorValue(comp_name, puuid, match_id) ==
    (CHOOSE k \in 1..Len(ComponentOrder) : ComponentOrder[k] = comp_name)
        + (IF puuid = "p1" THEN 10 ELSE 20) + (IF match_id = "m1" THEN 100 ELSE 200)

\* the dict d with d[key] = value
Put(d, key, value) == (key :> value) @@ d

\* the try block without the assignment of its except branch
TryCalculateNoDefault(player_components, comp_name, puuid, match_id, raises) ==
    IF <<match_id, puuid, comp_name>> \in raises
    THEN player_components
    ELSE Put(player_components, comp_name, CalculatorValue(comp_name, puuid, match_id))

\* the try block of the component loop: the calculator's value, or 0.0
\* when it raises
TryCalculate(player_components, comp_name, puuid, match_id, raises) ==
    IF <<match_id, puuid, comp_name>> \in raises
    THEN Put(player_components, comp_name, 0)
    ELSE Put(player_components, comp_name, CalculatorValue(comp_name, puuid, match_id))

\* get_components is not running
NotRunning ==
    [running |-> FALSE, m |-> 0, i |-> 0, j |-> 0, names |-> << >>,
     results |-> EmptyDict, player_components |-> EmptyDict, registry |-> {}]

InitComponents ==
    /\ EngineIdle
    /\ cutoff = {}
    /\ timeline = << >>
    /\ totalK = 0
    /\ totalD = 0
    /\ input \in [matches : MatchLists, component_names : NamesGiven, raises : RaiseSets]
    /\ output = << >>
    /\ registry = BuiltinComponents
    /\ pos = NotRunning

\* get_components(match_data, component_names) up to the loop over matches:
\* the names default to list_components(), and an unregistered name raises
\* ValueError out of the call
CallGetComponents ==
    /\ ~pos.running
    /\ Len(output) < MaxCalls
    /\ LET names == IF input.component_names = {}
                    THEN ListComponents(registry)
                    ELSE CHOOSE given \in input.component_names : TRUE
       IN IF \E k \in 1..Len(names) : names[k] \notin registry
          THEN /\ output' = Append(output, [raised |-> TRUE, results |-> EmptyDict,
                                            names |-> names, registry |-> registry])
               /\ pos' = pos
          ELSE /\ pos' = [running |-> TRUE, m |-> 1, i |-> 1, j |-> 1, names |-> names,
                          results |-> EmptyDict, player_components |-> EmptyDict,
                          registry |-> registry]
               /\ output' = output
    /\ UNCHANGED <<engine, cutoff, timeline, totalK, totalD, input, registry>>

\* the player of the inner loop
CurrentPlayer == input.matches[pos.m].players[pos.i]

\* if player.get('isObserver', False): continue
SkipObserver ==
    /\ pos.running
    /\ pos.m <= Len(input.matches)
    /\ pos.i <= Len(input.matches[pos.m].players)
    /\ CurrentPlayer.isObserver
    /\ pos' = [pos EXCEPT !.i = @ + 1]
    /\ UNCHANGED <<engine, cutoff, timeline, totalK, totalD, input, output, registry>>

\* that step with a calculator that unregisters itself
CalculateComponentAndUnregister ==
    /\ pos.running
    /\ pos.m <= Len(input.matches)
    /\ pos.i <= Len(input.matches[pos.m].players)
    /\ ~CurrentPlayer.isObserver
    /\ pos.j <= Len(pos.names)
    /\ pos' = [pos EXCEPT !.j = @ + 1,
                          !.player_components =
                              TryCalculate(@, pos.names[pos.j], CurrentPlayer.puuid,
                                           input.matches[pos.m].matchId, input.raises)]
    /\ registry' = registry \ {pos.names[pos.j]}
    /\ UNCHANGED <<engine, cutoff, timeline, totalK, totalD, input, output>>

\* for comp_name in component_names: one component of the current player
CalculateComponent ==
    /\ pos.running
    /\ pos.m <= Len(input.matches)
    /\ pos.i <= Len(input.matches[pos.m].players)
    /\ ~CurrentPlayer.isObserver
    /\ pos.j <= Len(pos.names)
    /\ pos' = [pos EXCEPT !.j = @ + 1,
                          !.player_components =
                              TryCalculate(@, pos.names[pos.j], CurrentPlayer.puuid,
                                           input.matches[pos.m].matchId, input.raises)]
    /\ UNCHANGED <<engine, cutoff, timeline, totalK, totalD, input, output, registry>>

\* results[player_key] = player_components
StorePlayer ==
    /\ pos.running
    /\ pos.m <= Len(input.matches)
    /\ pos.i <= Len(input.matches[pos.m].players)
    /\ ~CurrentPlayer.isObserver
    /\ pos.j > Len(pos.names)
    /\ pos' = [pos EXCEPT !.i = @ + 1, !.j = 1, !.player_components = EmptyDict,
                          !.results = Put(@, <<CurrentPlayer.puuid,
                                               input.matches[pos.m].matchId>>,
                                          pos.player_components)]
    /\ UNCHANGED <<engine, cutoff, timeline, totalK, totalD, input, output, registry>>

\* for match in matches: the players of the match are exhausted
NextMatch ==
    /\ pos.running
    /\ pos.m <= Len(input.matches)
    /\ pos.i > Len(input.matches[pos.m].players)
    /\ pos' = [pos EXCEPT !.m = @ + 1, !.i = 1, !.j = 1]
    /\ UNCHANGED <<engine, cutoff, timeline, totalK, totalD, input, output, registry>>

\* return results
ReturnComponents ==
    /\ pos.running
    /\ pos.m > Len(input.matches)
    /\ output' = Append(output, [raised |-> FALSE, results |-> pos.results,
                                 names |-> pos.names, registry |-> pos.registry])
    /\ pos' = NotRunning
    /\ UNCHANGED <<engine, cutoff, timeline, totalK, totalD, input, registry>>

\* add_component('Custom', ...) between two calls
AddComponent ==
    /\ ~pos.running
    /\ registry' = registry \cup {"Custom"}
    /\ registry' # registry
    /\ UNCHANGED <<engine, cutoff, timeline, totalK, totalD, input, output, pos>>

\* remove_component(name) between two calls
RemoveComponent ==
    /\ ~pos.running
    /\ \E name \in {"Custom", "ADRa"} :
          /\ name \in registry
          /\ registry' = registry \ {name}
    /\ UNCHANGED <<engine, cutoff, timeline, totalK, totalD, input, output, pos>>

NextComponents ==
    \/ CallGetComponents \/ SkipObserver \/ CalculateComponent \/ StorePlayer
    \/ NextMatch \/ ReturnComponents \/ AddComponent \/ RemoveComponent

SpecComponents == InitComponents /\ [][NextComponents]_vars

----------------------------------------------------------------------------
(* The ancillary metrics: calculate_apr and calculate_adra for one player  *)
(* of a match.  A returned float is the fraction num / den.                *)

\* base expected damage of a kill
BaseExpectedDamage == 100

\* the float num / den
Fraction(num, den) == [raised |-> FALSE, num |-> num, den |-> den]

\* 0.0
ZeroFloat == Fraction(0, 1)

\* a / b: ZeroDivisionError when b is 0
Divide(a, b) ==
    IF b = 0 THEN [raised |-> TRUE, num |-> 0, den |-> 1] ELSE Fraction(a, b)

\* a test that never holds
NeverZero(rounds_played) == FALSE

\* rounds_played == 0
IsZero(rounds_played) == rounds_played = 0

\* calculate_apr; player.stats is {} for None, {stats} otherwise
CalculateApr(player) ==
    IF player.stats = {} THEN ZeroFloat
    ELSE LET stats == CHOOSE st \in player.stats : TRUE
             rounds_played == Get(stats, "roundsPlayed", 0)
         IN IF IsZero(rounds_played) THEN ZeroFloat
            ELSE Divide(Get(stats, "assists", 0), rounds_played)

\* {'Light': 25, 'Heavy': 50, 'Regen': 25}.get(victim_armor, 0)
ArmorValue(victim_armor) ==
    IF victim_armor = "Light" THEN 25
    ELSE IF victim_armor = "Heavy" THEN 50
    ELSE IF victim_armor = "Regen" THEN 25
    ELSE 0

RECURSIVE ExpectedDamage(_, _, _)
\* the loop over impacts.items() of one round: 100 + armor value of the
\* victim for every key (killer, victim) whose killer is the player
ExpectedDamage(keys, puuid, armor) ==
    IF keys = {} THEN 0
    ELSE LET key == CHOOSE x \in keys : TRUE
         IN (IF key[1] = puuid
             THEN BaseExpectedDamage + ArmorValue(Get(armor, key[2], "None"))
             ELSE 0)
            + ExpectedDamage(keys \ {key}, puuid, armor)

\* max(0, adra) for adra = num / den with den > 0
MaxZero(num, den) == IF num < 0 THEN ZeroFloat ELSE Fraction(num, den)

\* the kill records of a round of the ADRa match: p1 kills p2 early, p1 kills
\* p2 (again) late, p2 kills p1, p1 kills a player that is not in the roster
AdraKills ==
    { [killer |-> "p1", victim |-> "p2", time |-> 20000, damageType |-> "Bullet"],
      [killer |-> "p1", victim |-> "p2", time |-> 50000, damageType |-> "Bullet"],
      [killer |-> "p2", victim |-> "p1", time |-> 20000, damageType |-> "Bullet"],
      [killer |-> "p1", victim |-> "x", time |-> 50000, damageType |-> "Bullet"] }

AdraRecordLists == UNION {[1..len -> AdraKills] : len \in 0..MaxRecords}

\* economy.armor of the playerStats entries of a round
ArmorChoices ==
    { [p \in {"p1", "p2"} |-> IF p = "p2" THEN "Heavy" ELSE "Light"],
      [p \in {"p1"} |-> "Regen"] }

\* roundResults: one round, or that round followed by a round with one kill
AdraMatches ==
    { <<[kills |-> kills, armor |-> armor]>> :
          kills \in AdraRecordLists, armor \in ArmorChoices }
    \cup
    { <<[kills |-> kills, armor |-> armor],
        [kills |-> <<[killer |-> "p1", victim |-> "p2", time |-> 20000,
                      damageType |-> "Bullet"]>>,
         armor |-> armor]>> :
          kills \in {l \in AdraRecordLists : Len(l) = 1}, armor \in ArmorChoices }

\* player['stats']: None, no roundsPlayed, roundsPlayed 0, and rounds played
\* with and without assists
StatsChoices ==
    { {}, {[assists |-> 3]}, {[roundsPlayed |-> 0, assists |-> 3]},
      {[roundsPlayed |-> 2, assists |-> 3]}, {[roundsPlayed |-> 2]} }

\* damage_data: the player's total damage
DamageChoices == { [p \in {"p1"} |-> 100], [p \in {"p1"} |-> 450], EmptyDict }

\* calculate_adra is not running
AdraNotRunning ==
    [running |-> FALSE, r |-> 0, k |-> 0, all_kills |-> << >>, impacts |-> {},
     expected_damage |-> 0]

\* all_kills of round r of the match, sorted by time
AdraAllKills(rounds, r) ==
    IF r <= Len(rounds) THEN SortByTime(rounds[r].kills) ELSE << >>

InitAncillary ==
    /\ players \in Rosters
    /\ planters = <<NoValue>>
    /\ phase = "call"
    /\ roundIdx = 0
    /\ rd = NoRound
    /\ sides = <<"Blue", "Red">>
    /\ sidesA = <<"Blue", "Red">>
    /\ n = 0
    /\ ev = NoKill
    /\ ratedK = "p1"
    /\ ratedD = "p1"
    /\ aliveK = StartAlive
    /\ aliveD = StartAlive
    /\ aliveA = StartAlive
    /\ resK = NoResult
    /\ resD = NoResult
    /\ cutoff = {}
    /\ timeline = << >>
    /\ totalK = 0
    /\ totalD = 0
    /\ input \in [player : [puuid : {"p1"}, stats : StatsChoices],
                  damage_data : DamageChoices, rounds : AdraMatches]
    /\ output = [apr |-> {}, adra |-> {}]
    /\ registry = {}
    /\ pos = AdraNotRunning

\* calculate_apr(player, ...)
CallCalculateApr ==
    /\ output.apr = {}
    /\ output' = [output EXCEPT !.apr = {CalculateApr(input.player)}]
    /\ UNCHANGED <<engine, cutoff, timeline, totalK, totalD, input, registry, pos>>

\* calculate_adra(player, match, damage_data, ...) up to its loop over the
\* rounds: 0.0 when the stats are None or roundsPlayed is 0
CallCalculateAdra ==
    /\ output.adra = {}
    /\ ~pos.running
    /\ IF input.player.stats = {}
          \/ IsZero(Get(CHOOSE st \in input.player.stats : TRUE, "roundsPlayed", 0))
       THEN /\ output' = [output EXCEPT !.adra = {ZeroFloat}]
            /\ UNCHANGED <<pos, sidesA, aliveA>>
       ELSE /\ pos' = [running |-> TRUE, r |-> 1, k |-> 0,
                       all_kills |-> AdraAllKills(input.rounds, 1), impacts |-> {},
                       expected_damage |-> 0]
            /\ sidesA' = AdraDetermineSides(planters, NoValue, players)
            /\ aliveA' = StartAlive
            /\ output' = output
    /\ UNCHANGED <<players, planters, phase, roundIdx, rd, sides, n, ev, ratedK, ratedD,
                   aliveK, aliveD, resK, resD, cutoff, timeline, totalK, totalD,
                   input, registry>>

\* for kill in all_kills of _calculate_xvx_impacts: a kill that is not
\* skipped sets impacts[(killer, victim)]
XvxImpactsKill ==
    /\ pos.running
    /\ pos.r <= Len(input.rounds)
    /\ pos.k < Len(pos.all_kills)
    /\ LET kill == pos.all_kills[pos.k + 1]
       IN /\ aliveA' = XvxImpactsStep(aliveA, kill, players, sidesA[1], sidesA[2])
          /\ pos' = [pos EXCEPT !.k = @ + 1,
                                !.impacts = IF aliveA' # aliveA
                                            THEN @ \cup {<<kill.killer, kill.victim>>}
                                            ELSE @]
    /\ UNCHANGED <<players, planters, phase, roundIdx, rd, sides, sidesA, n, ev, ratedK,
                   ratedD, aliveK, aliveD, resK, resD, cutoff, timeline, totalK, totalD,
                   input, output, registry>>

\* for (killer, victim), data in impacts.items(): the round's expected
\* damage, then the next round
AddExpectedDamage ==
    /\ pos.running
    /\ pos.r <= Len(input.rounds)
    /\ pos.k = Len(pos.all_kills)
    /\ pos' = [pos EXCEPT !.r = @ + 1, !.k = 0,
                          !.all_kills = AdraAllKills(input.rounds, pos.r + 1),
                          !.impacts = {},
                          !.expected_damage =
                              @ + ExpectedDamage(pos.impacts, input.player.puuid,
                                                 input.rounds[pos.r].armor)]
    /\ sidesA' = AdraDetermineSides(planters, NoValue, players)
    /\ aliveA' = StartAlive
    /\ UNCHANGED <<players, planters, phase, roundIdx, rd, sides, n, ev, ratedK, ratedD,
                   aliveK, aliveD, resK, resD, cutoff, timeline, totalK, totalD,
                   input, output, registry>>

\* return max(0, (total_damage - expected_damage) / rounds_played)
ReturnAdra ==
    /\ pos.running
    /\ pos.r > Len(input.rounds)
    /\ LET stats == CHOOSE st \in input.player.stats : TRUE
           total_damage == Get(input.damage_data, input.player.puuid, 0)
       IN output' = [output EXCEPT !.adra =
             {MaxZero(total_damage - pos.expected_damage, Get(stats, "roundsPlayed", 0))}]
    /\ pos' = [pos EXCEPT !.running = FALSE]
    /\ UNCHANGED <<engine, cutoff, timeline, totalK, totalD, input, registry>>

NextAncillary ==
    \/ CallCalculateApr \/ CallCalculateAdra \/ XvxImpactsKill \/ AddExpectedDamage
    \/ ReturnAdra

SpecAncillary == InitAncillary /\ [][NextAncillary]_vars

----------------------------------------------------------------------------
(* calculate_kill_contrib and calculate_death_contrib over a match of two  *)
(* rounds, called with the tables of the caller: the timeline of each      *)
(* round is built from its kill records and replayed, and the              *)
(* contributions of the scored events are added up over the match.         *)

\* killer and victim of a kill record: the two players of the roster, and
\* a puuid that is absent from the roster
MatchPairs == {<<"p1", "p2">>, <<"p2", "p1">>, <<"p1", "x">>, <<"x", "p2">>}

\* the kill records of a round: one kill at 20 s and one kill at 60 s
MatchRecordLists ==
    { << [killer |-> a[1], victim |-> a[2], time |-> 20000, damageType |-> "Bullet"],
         [killer |-> b[1], victim |-> b[2], time |-> 60000, damageType |-> "Bullet"] >> :
         a \in MatchPairs, b \in MatchPairs }

\* roundResultCode, plantRoundTime and defuseRoundTime of a round: the plant
\* falls between the two kills
MatchOutcomes ==
    { <<"Elimination", {}, {}>>, <<"Elimination", {40000}, {}>>,
      <<"Detonate", {40000}, {}>>, <<"Defuse", {40000}, {50000}>> }

\* bombPlanter of the two rounds of the match
MatchPlanters == { <<NoValue, NoValue>>, <<NoValue, "p2">> }

\* a table in which a side's win probability falls as its opponents fall
FallingXvxData ==
    [win_probabilities |->
        [atk_spike |-> [k \in XvxKeys |-> 45 - 7 * k[1] + 9 * k[2]],
         atk_no_spike |-> [k \in XvxKeys |-> 52 - 6 * k[1] + 5 * k[2]]]]

\* xvx_data and economic_data of the call
MatchTables ==
    [xvx_data : {XvxData, FallingXvxData}, economic_data : {EconomicData, FullEconomicData}]

\* the players the two calculators are called for
MatchRated == {<<"p1", "p2">>, <<"p2", "p1">>}

InitMatch ==
    /\ players \in Rosters
    /\ planters \in MatchPlanters
    /\ phase = "rounds"
    /\ roundIdx = 0
    /\ rd = NoRound
    /\ sides = <<"Blue", "Red">>
    /\ sidesA = <<"Blue", "Red">>
    /\ n = 0
    /\ ev = NoKill
    /\ \E pair \in MatchRated : ratedK = pair[1] /\ ratedD = pair[2]
    /\ aliveK = StartAlive
    /\ aliveD = StartAlive
    /\ aliveA = StartAlive
    /\ resK = NoResult
    /\ resD = NoResult
    /\ cutoff = {}
    /\ timeline = << >>
    /\ totalK = 0
    /\ totalD = 0
    /\ input \in MatchTables
    /\ output = NoValue
    /\ registry = {}
    /\ pos = NoValue

\* for round_data in rounds: the round's sides, cutoff, all_kills filtered
\* and sorted, and alive
StartMatchRound ==
    /\ phase = "rounds"
    /\ roundIdx < Len(planters)
    /\ \E o \in MatchOutcomes, kills \in MatchRecordLists :
          rd' = [TimelineRoundData(o[1], o[2], o[3], kills,
                                   [p \in {"p1", "p2"} |-> IF p = "p1" THEN 1000 ELSE 5000])
                    EXCEPT !.roundNum = roundIdx, !.bombPlanter = planters[roundIdx + 1]]
    /\ sides' = DetermineSides(planters, roundIdx, planters[roundIdx + 1], players)
    /\ cutoff' = EffectiveRoundEndTime(rd')
    /\ timeline' = SortByTime(FilterKills(rd'.kills, cutoff'))
    /\ phase' = "replay"
    /\ n' = 0
    /\ ev' = NoKill
    /\ aliveK' = StartAlive
    /\ aliveD' = StartAlive
    /\ resK' = NoResult
    /\ resD' = NoResult
    /\ UNCHANGED <<players, planters, roundIdx, sidesA, ratedK, ratedD, aliveA,
                   totalK, totalD, input, output, registry, pos>>

\* for kill in all_kills: the next entry of the timeline, scored on the
\* tables of the call and added to the totals
ReplayMatchKill ==
    /\ phase = "replay"
    /\ n < Len(timeline)
    /\ ev' = timeline[n + 1]
    /\ resK' = KillStepOn(input.xvx_data, input.economic_data, aliveK, KillEntry(ev'),
                          ratedK, players, sides[1], sides[2], rd)
    /\ resD' = DeathStepOn(input.xvx_data, input.economic_data, aliveD, DeathEntry(ev'),
                           ratedD, players, sides[1], sides[2], rd)
    /\ aliveK' = resK'.alive
    /\ aliveD' = resD'.alive
    /\ totalK' = totalK + resK'.impact
    /\ totalD' = totalD + resD'.impact
    /\ n' = n + 1
    /\ UNCHANGED <<players, planters, phase, roundIdx, rd, sides, sidesA, ratedK, ratedD,
                   aliveA, cutoff, timeline, input, output, registry, pos>>

\* return total_kill_contrib / return total_death_contrib
ReturnMatch ==
    /\ phase = "rounds"
    /\ roundIdx = Len(planters)
    /\ phase' = "done"
    /\ output' = [KillContrib |-> totalK, DeathContrib |-> totalD]
    /\ UNCHANGED <<players, planters, roundIdx, rd, sides, sidesA, n, ev, ratedK, ratedD,
                   aliveK, aliveD, aliveA, resK, resD, cutoff, timeline, totalK, totalD,
                   input, registry, pos>>

NextMatchRounds == StartMatchRound \/ ReplayMatchKill \/ EndTimeline \/ ReturnMatch

SpecMatch == InitMatch /\ [][NextMatchRounds]_vars

----------------------------------------------------------------------------
(* The component registry: _COMPONENTS as the dict it is, its keys in      *)
(* insertion order, filled by load_builtin_components when the package is  *)
(* imported and then changed and read through add_component,               *)
(* remove_component, get_component and list_components.  The calls made    *)
(* so far, the import first, are kept with what each returned and the      *)
(* dict it left.                                                           *)

\* calls made on the registry after the import
MaxRegistryCalls == 5

\* the keys of a dict, in insertion order
Keys(reg) == [i \in 1..Len(reg) |-> reg[i].name]

\* index of a key in a dict (0 when it is not a key)
KeyIndex(reg, name) ==
    LET hits == {i \in 1..Len(reg) : reg[i].name = name}
    IN IF hits = {} THEN 0 ELSE Min(hits)

\* the assignment that leaves the calculator of a key already present
RegisterKeepingFirst(reg, name, calculator) ==
    IF KeyIndex(reg, name) # 0
    THEN reg
    ELSE Append(reg, [name |-> name, calculator |-> calculator])

\* register_component: _COMPONENTS[name] = calculator
RegisterComponent(reg, name, calculator) ==
    IF KeyIndex(reg, name) # 0
    THEN [reg EXCEPT ![KeyIndex(reg, name)].calculator = calculator]
    ELSE Append(reg, [name |-> name, calculator |-> calculator])

\* unregister_component: if name in _COMPONENTS: del _COMPONENTS[name]
UnregisterComponent(reg, name) ==
    IF KeyIndex(reg, name) # 0
    THEN SelectSeq(reg, LAMBDA e : e.name # name)
    ELSE reg

\* get_component: the calculator, or ValueError for a name that is no key
GetComponent(reg, name) ==
    IF KeyIndex(reg, name) = 0
    THEN [raised |-> "ValueError", value |-> NoValue]
    ELSE [raised |-> NoValue, value |-> reg[KeyIndex(reg, name)].calculator]

\* list_components: list(_COMPONENTS.keys())
ListRegistered(reg) == Keys(reg)

\* the built-in registrations with the one of ADRa lost to an ImportError
BuiltinWithoutAdra ==
    << <<"KillContrib", "calculate_kill_contrib">>,
       <<"DeathContrib", "calculate_death_contrib">>,
       <<"APR", "calculate_apr">> >>

\* the registrations of load_builtin_components, in its order
BuiltinRegistrations ==
    << <<"KillContrib", "calculate_kill_contrib">>,
       <<"DeathContrib", "calculate_death_contrib">>,
       <<"APR", "calculate_apr">>,
       <<"ADRa", "calculate_adra">> >>

RECURSIVE RegisterAll(_, _)
\* the register_component calls of load_builtin_components, one by one
RegisterAll(reg, registrations) ==
    IF registrations = << >> THEN reg
    ELSE RegisterAll(RegisterComponent(reg, registrations[1][1], registrations[1][2]),
                     Tail(registrations))

\* names and calculators the callers pass: a built-in name and a new one
RegistryNames == {"ADRa", "Custom"}
Calculators == {"f", "g"}

\* a call, what it returned or raised, and the dict it left
Call(op, name, calculator, raised, value, reg) ==
    [op |-> op, name |-> name, calculator |-> calculator,
     raised |-> raised, value |-> value, registry |-> reg]

InitRegistry ==
    /\ EngineIdle
    /\ cutoff = {}
    /\ timeline = << >>
    /\ totalK = 0
    /\ totalD = 0
    /\ input = << >>
    /\ output = NoValue
    /\ registry = << >>
    /\ pos = "import"

\* load_builtin_components(), run when the module is imported
LoadBuiltinComponents ==
    /\ pos = "import"
    /\ registry' = RegisterAll(registry, BuiltinRegistrations)
    /\ input' = <<Call("load_builtin_components", NoValue, NoValue, NoValue, << >>,
                       registry')>>
    /\ pos' = "loaded"
    /\ UNCHANGED <<engine, cutoff, timeline, totalK, totalD, output>>

\* add_component(name, calculator_func)
CallAddComponent ==
    /\ pos = "loaded"
    /\ Len(input) <= MaxRegistryCalls
    /\ \E name \in RegistryNames, calculator \in Calculators :
          /\ registry' = RegisterComponent(registry, name, calculator)
          /\ input' = Append(input, Call("add_component", name, calculator,
                                         NoValue, << >>, registry'))
    /\ UNCHANGED <<engine, cutoff, timeline, totalK, totalD, output, pos>>

\* remove_component(name)
CallRemoveComponent ==
    /\ pos = "loaded"
    /\ Len(input) <= MaxRegistryCalls
    /\ \E name \in RegistryNames :
          /\ registry' = UnregisterComponent(registry, name)
          /\ input' = Append(input, Call("remove_component", name, NoValue,
                                         NoValue, << >>, registry'))
    /\ UNCHANGED <<engine, cutoff, timeline, totalK, totalD, output, pos>>

\* get_component(name)
CallGetComponent ==
    /\ pos = "loaded"
    /\ Len(input) <= MaxRegistryCalls
    /\ \E name \in RegistryNames :
          LET got == GetComponent(registry, name)
          IN input' = Append(input, Call("get_component", name, NoValue,
                                         got.raised, <<got.value>>, registry))
    /\ UNCHANGED <<engine, cutoff, timeline, totalK, totalD, output, registry, pos>>

\* list_components()
CallListComponents ==
    /\ pos = "loaded"
    /\ Len(input) <= MaxRegistryCalls
    /\ input' = Append(input, Call("list_components", NoValue, NoValue,
                                   NoValue, ListRegistered(registry), registry))
    /\ UNCHANGED <<engine, cutoff, timeline, totalK, totalD, output, registry, pos>>

NextRegistry ==
    \/ LoadBuiltinComponents
    \/ CallAddComponent
    \/ CallRemoveComponent
    \/ CallGetComponent
    \/ CallListComponents

SpecRegistry == InitRegistry /\ [][NextRegistry]_vars

----------------------------------------------------------------------------
(* The legacy pipeline: calculate_components of src/src/rating_calculator  *)
(* on one match, with calculate_xvx_impact, get_economic_modifier,         *)
(* calculate_apr and calculate_adra of the legacy modules.  An impact      *)
(* (a probability delta through apply_post_round_modifier) is in           *)
(* two-hundredths, a contribution in forty-thousandths.  The fields kills, *)
(* deaths, assists and target that a component record copies from the      *)
(* player's stats are left out.                                            *)

\* categorize_economy
CategorizeEconomy(total_loadout) ==
    IF total_loadout <= 1500 THEN "Save Round"
    ELSE IF total_loadout <= 4000 THEN "Eco Round"
    ELSE IF total_loadout <= 7500 THEN "Force Buy"
    ELSE IF total_loadout <= 10000 THEN "Anti-Eco"
    ELSE IF total_loadout <= 15000 THEN "Full Buy"
    ELSE "Operator Buy"

\* get_economic_modifier: 2 * (1 - win_rate) in hundredths, ValueError for a
\* matchup that is not in economic_data
GetEconomicModifier(killer_team_loadout, victim_team_loadout, economic_data) ==
    LET matchup == <<CategorizeEconomy(killer_team_loadout),
                     CategorizeEconomy(victim_team_loadout)>>
    IN IF matchup \in DOMAIN economic_data
       THEN [raised |-> NoValue, matchup |-> matchup,
             value |-> 2 * (ProbOne - economic_data[matchup].win_rate)]
       ELSE [raised |-> "ValueError", matchup |-> matchup, value |-> 0]

\* determine_sides of xvx_impact: the round's planter, else the first
\* planter of the first twelve rounds that is in the roster, else Blue
LegacyDetermineSides(rounds, planter, ps) ==
    LET first == {r \in 1..(IF HalfRounds < Len(rounds) THEN HalfRounds ELSE Len(rounds)) :
                      /\ Truthy(rounds[r].bombPlanter)
                      /\ PlayerIndex(rounds[r].bombPlanter, ps) # 0}
    IN IF Truthy(planter) /\ PlayerIndex(planter, ps) # 0
       THEN <<ps[PlayerIndex(planter, ps)].teamId,
              OtherTeam(ps[PlayerIndex(planter, ps)].teamId)>>
       ELSE IF first # {}
       THEN <<ps[PlayerIndex(rounds[Min(first)].bombPlanter, ps)].teamId,
              OtherTeam(ps[PlayerIndex(rounds[Min(first)].bombPlanter, ps)].teamId)>>
       ELSE <<"Blue", "Red">>

\* get_win_prob: the sub-table '{side}_spike' or '{side}_no_spike'
GetWinProb(xvx_key, side, spike_planted, xvx_data) ==
    LET prob_dict == IF side = "atk"
                     THEN (IF spike_planted THEN xvx_data.atk_spike
                                            ELSE xvx_data.atk_no_spike)
                     ELSE (IF spike_planted THEN xvx_data.def_spike
                                            ELSE xvx_data.def_no_spike)
    IN Get(prob_dict, xvx_key, ProbDefault)

\* adjust_win_for_outcome of xvx_impact: << >> for None
LegacyAdjustWin(new_xvx_key, side, winning_team, atk_team, def_team) ==
    IF ~HasZero(new_xvx_key) THEN << >>
    ELSE IF winning_team = atk_team
    THEN (IF side = "atk" THEN <<ProbOne>> ELSE <<0>>)
    ELSE IF winning_team = def_team
    THEN (IF side = "atk" THEN <<0>> ELSE <<ProbOne>>)
    ELSE << >>

\* apply_post_round_modifier, in two-hundredths
ApplyPostRoundModifier(impact, time_since_round_start) ==
    IF time_since_round_start > PostRoundMillis THEN impact ELSE 2 * impact

\* the side 'atk' / 'def' of a puuid in calculate_xvx_impact, None when it
\* is not in the roster
LegacySide(puuid, ps, atk_team) ==
    IF PlayerIndex(puuid, ps) = 0 THEN NoValue
    ELSE IF ps[PlayerIndex(puuid, ps)].teamId = atk_team THEN "atk" ELSE "def"

\* d[key] = value on a dict kept in insertion order
SetItem(items, key, value) ==
    LET hits == {i \in 1..Len(items) : items[i].key = key}
    IN IF hits = {} THEN Append(items, [key |-> key, value |-> value])
       ELSE [items EXCEPT ![Min(hits)].value = value]

\* one iteration of the loop over all_kills of calculate_xvx_impact
LegacyKill(acc, kill, ps, sds, round_data, xvx_data) ==
    LET killer_team == LegacySide(kill.killer, ps, sds[1])
        victim_team == LegacySide(kill.victim, ps, sds[1])
        other == IF killer_team = "def" THEN "atk" ELSE "def"
        spike_planted == round_data.plantRoundTime # {}
        xvx_key == GetXvxKey(acc.alive[killer_team], acc.alive[other])
        old_win == GetWinProb(xvx_key, killer_team, spike_planted, xvx_data)
        alive == [acc.alive EXCEPT ![victim_team] = @ - 1]
        new_xvx_key == GetXvxKey(alive[killer_team], alive[other])
        looked == GetWinProb(new_xvx_key, killer_team, spike_planted, xvx_data)
        adjusted == LegacyAdjustWin(new_xvx_key, killer_team, round_data.winningTeam,
                                    sds[1], sds[2])
        new_win == IF adjusted # << >> THEN adjusted[1] ELSE looked
    IN IF killer_team = NoValue \/ victim_team = NoValue THEN acc
       ELSE IF acc.alive[victim_team] = 0 THEN acc
       ELSE IF acc.alive[killer_team] = 0 THEN acc
       ELSE [alive |-> alive,
             impacts |-> SetItem(acc.impacts, <<kill.killer, kill.victim>>,
                                 ApplyPostRoundModifier(new_win - old_win, kill.time))]

RECURSIVE LegacyKills(_, _, _, _, _, _)
\* the loop over all_kills, from the first kill on
LegacyKills(acc, kills, ps, sds, round_data, xvx_data) ==
    IF kills = << >> THEN acc
    ELSE LegacyKills(LegacyKill(acc, kills[1], ps, sds, round_data, xvx_data),
                     Tail(kills), ps, sds, round_data, xvx_data)

\* calculate_xvx_impact: the dict (killer, victim) -> impact of a round
CalculateXvxImpact(rounds, round_data, ps, xvx_data) ==
    LegacyKills([alive |-> StartAlive, impacts |-> << >>], SortByTime(round_data.kills),
                ps, LegacyDetermineSides(rounds, round_data.bombPlanter, ps),
                round_data, xvx_data).impacts

RECURSIVE SumLoadouts(_, _, _)
\* the loadoutValue of the roster players with the indexes S, added up
SumLoadouts(S, round_data, ps) ==
    IF S = {} THEN 0
    ELSE LET i == CHOOSE x \in S : TRUE
         IN round_data.loadoutValue[ps[i].puuid] + SumLoadouts(S \ {i}, round_data, ps)

\* team_loadouts of a round: the loadoutValue of the playerStats entries of
\* the roster's players, added up by team
TeamLoadouts(round_data, ps) ==
    [team \in {"Blue", "Red"} |->
        SumLoadouts({i \in 1..Len(ps) : /\ ps[i].teamId = team
                                        /\ ps[i].puuid \in DOMAIN round_data.loadoutValue},
                    round_data, ps)]

\* calculate_apr of the legacy module: assists / rounds
LegacyCalculateApr(stats) ==
    Divide(Get(stats, "assists", 0), Get(stats, "roundsPlayed", 1))

\* calculate_adra of the legacy module
LegacyCalculateAdra(total_damage, expected_total, rounds) ==
    IF rounds = 0 THEN ZeroFloat
    ELSE MaxZero(total_damage - expected_total, rounds)

\* match['players'] with stats: p1 has played no round or two rounds
LegacyRosters ==
    { << [puuid |-> "p1", teamId |-> "Blue",
          stats |-> [roundsPlayed |-> played, assists |-> 3]],
         [puuid |-> "p2", teamId |-> "Red",
          stats |-> [roundsPlayed |-> 2, assists |-> 1]] >> : played \in {0, 2} }

\* the kill records of a round: none, one kill, a kill after the round's
\* end, the same killer and victim twice, a victim absent from the roster
LegacyKillLists ==
    { << >>,
      << [killer |-> "p1", victim |-> "p2", time |-> 20000] >>,
      << [killer |-> "p1", victim |-> "p2", time |-> 20000],
         [killer |-> "p2", victim |-> "p1", time |-> 120000] >>,
      << [killer |-> "p1", victim |-> "p2", time |-> 20000],
         [killer |-> "p1", victim |-> "p2", time |-> 50000] >>,
      << [killer |-> "p1", victim |-> "x", time |-> 20000],
         [killer |-> "p2", victim |-> "p1", time |-> 50000] >> }

\* economy.loadoutValue of the two playerStats entries of a round: Save
\* against Force, Force against Force, Operator against Save
LegacyLoadouts ==
    { [p \in {"p1", "p2"} |-> IF p = "p1" THEN 1000 ELSE 5000],
      [p \in {"p1", "p2"} |-> 5000],
      [p \in {"p1", "p2"} |-> IF p = "p1" THEN 20000 ELSE 1000] }

\* a round of match['roundResults']: unplanted, or planted by p2
LegacyRounds(num) ==
    { [roundNum |-> num, bombPlanter |-> o[1], plantRoundTime |-> o[2],
       winningTeam |-> "Blue", kills |-> kills, loadoutValue |-> loadout,
       armor |-> [p \in {"p1", "p2"} |-> IF p = "p2" THEN "Heavy" ELSE "Light"]] :
          o \in {<<NoValue, {}>>, <<"p2", {40000}>>},
          kills \in LegacyKillLists, loadout \in LegacyLoadouts }

\* roundResults: one round or two
LegacyMatches ==
    {<<a>> : a \in LegacyRounds(0)}
    \cup {<<a, b>> : a \in LegacyRounds(0), b \in LegacyRounds(1)}

\* what load_xvx_data returns: the four sub-tables
LegacyXvxData ==
    [atk_spike |-> XvxData.win_probabilities.atk_spike,
     atk_no_spike |-> XvxData.win_probabilities.atk_no_spike,
     def_spike |-> [k \in XvxKeys |->
                       ProbOne - XvxData.win_probabilities.atk_spike[<<k[2], k[1]>>]],
     def_no_spike |-> [k \in (1..InitialAlive) \X (1..InitialAlive) |->
                          ProbOne - XvxData.win_probabilities.atk_no_spike[<<k[2], k[1]>>]]]

\* what load_economic_data returns: a table of two matchups, the table of
\* all matchups, and a table of none
LegacyEconomicTables ==
    { EconomicData.economy_categories, FullEconomicData.economy_categories, EmptyDict }

\* calculate_components is not running
LegacyIdle ==
    [stage |-> "idle", r |-> 0, k |-> 0, i |-> 0, round_impacts |-> << >>,
     team_loadouts |-> [team \in {"Blue", "Red"} |-> 0],
     player_contribs |-> EmptyDict, expected_damage |-> EmptyDict,
     components |-> << >>, raised |-> NoValue, matchup |-> << >>, mod |-> 0]

InitLegacy ==
    /\ EngineIdle
    /\ cutoff = {}
    /\ timeline = << >>
    /\ totalK = 0
    /\ totalD = 0
    /\ input \in [players : LegacyRosters, rounds : LegacyMatches,
                  economic_data : LegacyEconomicTables, xvx_data : {LegacyXvxData},
                  damage_data : {[p \in {"p1", "p2"} |-> IF p = "p1" THEN 450 ELSE 100]}]
    /\ output = NoValue
    /\ registry = {}
    /\ pos = LegacyIdle

\* calculate_components(matches, economic_data, xvx_data, damage_data): the
\* match is taken up
CallCalculateComponents ==
    /\ pos.stage = "idle"
    /\ pos' = [pos EXCEPT !.stage = "impacts"]
    /\ UNCHANGED <<engine, cutoff, timeline, totalK, totalD, input, output, registry>>

\* for round_data in rounds: the round's impacts and team_loadouts
RoundImpacts ==
    /\ pos.stage = "impacts"
    /\ pos.r < Len(input.rounds)
    /\ LET round_data == input.rounds[pos.r + 1]
       IN pos' = [pos EXCEPT
             !.r = @ + 1,
             !.round_impacts = Append(@, CalculateXvxImpact(input.rounds, round_data,
                                                           input.players, input.xvx_data)),
             !.team_loadouts = TeamLoadouts(round_data, input.players)]
    /\ UNCHANGED <<engine, cutoff, timeline, totalK, totalD, input, output, registry>>

\* player_contribs and expected_damage are set up for the roster
InitContribs ==
    /\ pos.stage = "impacts"
    /\ pos.r = Len(input.rounds)
    /\ LET puuids == {input.players[i].puuid : i \in 1..Len(input.players)}
       IN pos' = [pos EXCEPT !.stage = "contribs", !.r = 1, !.k = 0,
                             !.player_contribs = [p \in puuids |-> [kill |-> 0, death |-> 0]],
                             !.expected_damage = [p \in puuids |-> 0]]
    /\ UNCHANGED <<engine, cutoff, timeline, totalK, totalD, input, output, registry>>

\* for (killer, victim), data in impacts.items(): the expected damage, the
\* economic modifier (whose ValueError ends the calculation) and the two
\* contributions
ApplyImpact ==
    /\ pos.stage = "contribs"
    /\ pos.r <= Len(input.rounds)
    /\ pos.k < Len(pos.round_impacts[pos.r])
    /\ LET entry == pos.round_impacts[pos.r][pos.k + 1]
           killer == entry.key[1]
           victim == entry.key[2]
           killer_team == input.players[PlayerIndex(killer, input.players)].teamId
           killer_loadout == IF killer_team = "Blue" THEN pos.team_loadouts["Blue"]
                             ELSE pos.team_loadouts["Red"]
           victim_loadout == IF killer_team = "Blue" THEN pos.team_loadouts["Red"]
                             ELSE pos.team_loadouts["Blue"]
           expected == BaseExpectedDamage
                       + ArmorValue(Get(input.rounds[pos.r].armor, victim, "None"))
           econ == GetEconomicModifier(killer_loadout, victim_loadout, input.economic_data)
           amount == entry.value * (ModifierDefault + econ.value)
       IN IF econ.raised # NoValue
          THEN pos' = [pos EXCEPT !.stage = "raised", !.raised = econ.raised,
                                  !.matchup = <<econ.matchup>>, !.mod = 0,
                                  !.expected_damage[killer] = @ + expected]
          ELSE pos' = [pos EXCEPT !.k = @ + 1,
                                  !.matchup = <<econ.matchup>>, !.mod = econ.value,
                                  !.expected_damage[killer] = @ + expected,
                                  !.player_contribs[killer].kill = @ + amount,
                                  !.player_contribs[victim].death = @ - amount]
    /\ UNCHANGED <<engine, cutoff, timeline, totalK, totalD, input, output, registry>>

\* the impacts of the round are exhausted: on to the next round
NextLegacyRound ==
    /\ pos.stage = "contribs"
    /\ pos.r <= Len(input.rounds)
    /\ pos.k = Len(pos.round_impacts[pos.r])
    /\ pos' = [pos EXCEPT !.r = @ + 1, !.k = 0]
    /\ UNCHANGED <<engine, cutoff, timeline, totalK, totalD, input, output, registry>>

\* for player in match_players: APR (whose ZeroDivisionError ends the
\* calculation), ADRa and the player's component record
PlayerMetrics ==
    /\ pos.stage = "contribs"
    /\ pos.r > Len(input.rounds)
    /\ pos.i < Len(input.players)
    /\ LET player == input.players[pos.i + 1]
           stats == player.stats
           total_damage == Get(input.damage_data, player.puuid, 0)
           apr == LegacyCalculateApr(stats)
           adra == LegacyCalculateAdra(total_damage, pos.expected_damage[player.puuid],
                                       stats.roundsPlayed)
       IN IF apr.raised
          THEN pos' = [pos EXCEPT !.stage = "raised", !.raised = "ZeroDivisionError",
                                  !.i = @ + 1]
          ELSE pos' = [pos EXCEPT !.i = @ + 1,
                          !.components = Append(@,
                              [puuid |-> player.puuid,
                               KillContrib |-> pos.player_contribs[player.puuid].kill,
                               DeathContrib |-> pos.player_contribs[player.puuid].death,
                               APR |-> apr, ADRa |-> adra])]
    /\ UNCHANGED <<engine, cutoff, timeline, totalK, totalD, input, output, registry>>

\* return components
ReturnLegacyComponents ==
    /\ pos.stage = "contribs"
    /\ pos.r > Len(input.rounds)
    /\ pos.i = Len(input.players)
    /\ pos' = [pos EXCEPT !.stage = "returned"]
    /\ output' = pos.components
    /\ UNCHANGED <<engine, cutoff, timeline, totalK, totalD, input, registry>>

NextLegacy ==
    \/ CallCalculateComponents
    \/ RoundImpacts
    \/ InitContribs
    \/ ApplyImpact
    \/ NextLegacyRound
    \/ PlayerMetrics
    \/ ReturnLegacyComponents

SpecLegacy == InitLegacy /\ [][NextLegacy]_vars

----------------------------------------------------------------------------
(* Properties *)

\* teamId of a roster player
TeamIdOf(puuid) == players[PlayerIndex(puuid, players)].teamId

\* side ("atk" / "def" / None) of a puuid in the round being replayed
SideOf(puuid) == GetTeamFromPuuid(puuid, players, sides[1], sides[2])

InRange(alive) ==
    /\ alive.atk \in 0..InitialAlive
    /\ alive.def \in 0..InitialAlive

NotAbove(new, old) ==
    /\ new.atk <= old.atk
    /\ new.def <= old.def

\* C1: in the three round replays the alive counts are reset to 5 and 5 at
\* the start of every round, and every timeline event leaves each count an
\* integer in 0..5 that is not above its value before the event.
C1_AliveCountsResetAndNonIncreasing ==
    [][ /\ (phase = "rounds" /\ phase' = "replay")
            => aliveK' = StartAlive /\ aliveD' = StartAlive /\ aliveA' = StartAlive
        /\ (phase = "replay" /\ n' = n + 1)
            => /\ InRange(aliveK') /\ NotAbove(aliveK', aliveK)
               /\ InRange(aliveD') /\ NotAbove(aliveD', aliveD)
               /\ InRange(aliveA') /\ NotAbove(aliveA', aliveA) ]_vars

\* C1 witness: a sixth death on a side that is already at 0 in all three
\* replays has been replayed
C1_Witness ==
    /\ phase = "replay"
    /\ n > InitialAlive
    /\ SideOf(ev.victim) = "def"
    /\ GetTeamFromPuuid(ev.victim, players, sidesA[1], sidesA[2]) = "def"
    /\ resK.before.def = 0 /\ aliveK.def = 0
    /\ resD.before.def = 0 /\ aliveD.def = 0
    /\ aliveA.def = 0

\* C2: for a scored event whose post-event state has 0 alive on a side, in a
\* round that records a winning team, the post-event probability is 1.0 when
\* the perspective player's team is the winning team and 0.0 otherwise.
C2_TerminalOverrideFollowsWinner ==
    /\ (resK.scored /\ (aliveK.atk = 0 \/ aliveK.def = 0) /\ Truthy(rd.winningTeam))
          => resK.post = IF TeamIdOf(ev.killer) = rd.winningTeam THEN ProbOne ELSE 0
    /\ (resD.scored /\ (aliveD.atk = 0 \/ aliveD.def = 0) /\ Truthy(rd.winningTeam))
          => resD.post = IF TeamIdOf(ev.victim) = rd.winningTeam THEN ProbOne ELSE 0

\* C3: a scored event later than 100,000 ms contributes half of
\* (post - pre) x economic_modifier, an event at or before 100,000 ms
\* contributes all of it (the death contribution in magnitude).
C3_DecayLaw ==
    LET factor == IF ev.time > PostRoundMillis THEN 1 ELSE 2
    IN /\ resK.scored
            => 2 * resK.impact = factor * (resK.post - resK.pre) * resK.mod
       /\ resD.scored
            => 2 * Abs(resD.impact) = factor * Abs((resD.post - resD.pre) * resD.mod)

\* C4: an event of damage type 'Bomb' decrements the victim's side count and
\* adds exactly 0 to the kill contribution and to the death contribution.
C4_BombAddsNothing ==
    ev.damageType = "Bomb"
        => /\ resK.impact = 0
           /\ resD.impact = 0
           /\ (SideOf(ev.victim) # NoValue /\ resK.before[SideOf(ev.victim)] > 0)
                 => aliveK[SideOf(ev.victim)] = resK.before[SideOf(ev.victim)] - 1
           /\ (SideOf(ev.victim) # NoValue /\ resD.before[SideOf(ev.victim)] > 0)
                 => aliveD[SideOf(ev.victim)] = resD.before[SideOf(ev.victim)] - 1

\* the event cannot be scored from the alive counts before: a side is not
\* resolved, killer and victim share a side, or the killer's side is at 0
Unscorable(before) ==
    \/ SideOf(ev.killer) = NoValue
    \/ SideOf(ev.victim) = NoValue
    \/ SideOf(ev.killer) = SideOf(ev.victim)
    \/ before[SideOf(ev.killer)] = 0

StillDecrements(before, after) ==
    (SideOf(ev.victim) # NoValue /\ before[SideOf(ev.victim)] > 0)
        => after[SideOf(ev.victim)] = before[SideOf(ev.victim)] - 1

\* C5: an event that cannot be scored adds no contribution and still
\* decrements the victim's side count by one when that side is resolved and
\* above 0, also when its killer / victim is the player being rated.
C5_SkippedEventStillDecrements ==
    (ev # NoKill /\ ev.damageType # "Bomb")
        => /\ Unscorable(resK.before)
                => resK.impact = 0 /\ StillDecrements(resK.before, aliveK)
           /\ Unscorable(resD.before)
                => resD.impact = 0 /\ StillDecrements(resD.before, aliveD)

Decrements(alive) == (InitialAlive - alive.atk) + (InitialAlive - alive.def)

\* C6: every timeline event decrements exactly one side's count by exactly
\* one, so the decrements of a round add up to the number of its events.
C6_DecrementsEqualEvents ==
    /\ Decrements(aliveK) = n
    /\ Decrements(aliveD) = n

\* C7: the alive counts after any prefix of a round's timeline are the same
\* in calculate_kill_contrib and calculate_death_contrib, whichever players
\* the two are called for.
C7_OneTrajectory ==
    aliveK = aliveD

\* C8: for an event scored for its killer by calculate_kill_contrib and for
\* its victim by calculate_death_contrib, the amount added to the victim's
\* DeathContrib is non-positive and has the magnitude of the amount added to
\* the killer's KillContrib.
C8_DeathMirrorsKill ==
    (resK.scored /\ resD.scored /\ ratedK = ev.killer /\ ratedD = ev.victim
        /\ ev.damageType # "Bomb")
        => /\ resD.impact <= 0
           /\ Abs(resD.impact) = Abs(resK.impact)

\* rounds of the half of round r (rounds 0-11, or 12 and above)
SameHalf(r) ==
    {q \in 0..(Len(planters) - 1) : (q < HalfRounds) = (r < HalfRounds)}

PlantedInHalf(r) == {q \in SameHalf(r) : Truthy(planters[q + 1])}

\* the sides the planter rule gives for a planter of the roster
PlanterRule(planter, r) ==
    LET team == TeamIdOf(planter)
        other == IF team = "Blue" THEN "Red" ELSE "Blue"
    IN IF r < HalfRounds THEN <<team, other>> ELSE <<other, team>>

\* C9: when the round has no planter, the first round of the same half that
\* has a planter determines the sides by the planter rule, wherever that
\* planter stands in the roster.
C9_SearchedPlanterDeterminesSides ==
    (phase = "replay" /\ ~Truthy(rd.bombPlanter) /\ PlantedInHalf(rd.roundNum) # {})
        => LET planter == planters[Min(PlantedInHalf(rd.roundNum)) + 1]
           IN PlayerIndex(planter, players) # 0
                 => sides = PlanterRule(planter, rd.roundNum)

\* C10: when the round's bombPlanter is a player of the roster, the planter's
\* team is the attacker for rounds 0-11 and the defender for rounds 12 and
\* above, the other team taking the other role.
C10_RoundPlanterDeterminesSides ==
    (phase = "replay" /\ Truthy(rd.bombPlanter)
        /\ PlayerIndex(rd.bombPlanter, players) # 0)
        => sides = PlanterRule(rd.bombPlanter, rd.roundNum)

\* C10 witness: a second-half round planted by the roster's second player,
\* whose team was resolved as the defender
C10_Witness ==
    /\ phase = "replay"
    /\ rd.roundNum >= HalfRounds
    /\ PlayerIndex(rd.bombPlanter, players) = 2
    /\ sides = <<"Blue", "Red">>
    /\ TeamIdOf(rd.bombPlanter) = "Red"

\* the round's setup has run: its cutoff and its timeline are built
Built == phase = "replay" \/ roundIdx > 0

\* the largest time among the round's recorded kills
LargestKillTime ==
    {rd.kills[i].time : i \in {j \in 1..Len(rd.kills) :
        \A k \in 1..Len(rd.kills) : rd.kills[k].time <= rd.kills[j].time}}

\* C11: _get_effective_round_end_time returns the defuse time when the result
\* code is Defuse, the largest kill time recorded in the round when it is
\* Elimination, plant time + 45000 ms when it is Detonate, and None for any
\* other result code.
C11_EffectiveRoundEndTime ==
    Built =>
        /\ rd.roundResultCode = "Defuse" => cutoff = rd.defuseRoundTime
        /\ (rd.roundResultCode = "Elimination" /\ rd.kills # << >>)
              => cutoff = LargestKillTime
        /\ rd.roundResultCode = "Detonate"
              => cutoff = {t + 45000 : t \in rd.plantRoundTime}
        /\ rd.roundResultCode \notin {"Defuse", "Elimination", "Detonate"}
              => cutoff = {}

\* C11 witness: an Elimination round whose latest kill is recorded first
C11_Witness ==
    /\ Built
    /\ rd.roundResultCode = "Elimination"
    /\ Len(rd.kills) = MaxRecords
    /\ rd.kills[1].time > rd.kills[2].time
    /\ rd.kills[2].time = rd.kills[3].time
    /\ cutoff = {rd.kills[1].time}

\* record positions of the kills at or before the cutoff
Included ==
    {i \in 1..Len(rd.kills) : cutoff = {} \/ \A t \in cutoff : rd.kills[i].time <= t}

\* place of record i in the timeline: after the included kills that are
\* earlier, and after those of the same time that are recorded before it
Rank(i) ==
    1 + Cardinality({j \in Included :
            \/ rd.kills[j].time < rd.kills[i].time
            \/ rd.kills[j].time = rd.kills[i].time /\ j < i})

\* C12: the timeline replayed for a round consists of exactly the recorded
\* kills with time <= cutoff (all kills when there is no cutoff), ordered by
\* ascending time with equal-time kills in record order; only these are
\* replayed, so a kill later than the cutoff changes neither the alive counts
\* nor a contribution.
C12_TimelineWithinCutoffInOrder ==
    Built =>
        /\ Len(timeline) = Cardinality(Included)
        /\ \A i \in Included : timeline[Rank(i)] = rd.kills[i]
        /\ n <= Len(timeline)
        /\ n > 0 => ev = timeline[n] /\ \A t \in cutoff : ev.time <= t
        /\ n = 0 => aliveK = StartAlive /\ aliveD = StartAlive
                    /\ totalK = 0 /\ totalD = 0
        /\ phase # "replay" => n = Cardinality(Included)

\* C12 witness: a round replayed to its end whose first record is later than
\* the cutoff and whose two other records, of different killers, are both at
\* the cutoff
C12_Witness ==
    /\ phase = "done"
    /\ Len(rd.kills) = MaxRecords
    /\ cutoff # {}
    /\ cutoff = {rd.kills[2].time}
    /\ rd.kills[1].time > rd.kills[2].time
    /\ rd.kills[3].time = rd.kills[2].time
    /\ rd.kills[3].killer # rd.kills[2].killer
    /\ timeline = <<rd.kills[2], rd.kills[3]>>
    /\ n = 2
    /\ aliveK.atk + aliveK.def = 2 * InitialAlive - 2

\* the attacker sub-table the spike status selects has the state's key
HasEntry ==
    /\ "win_probabilities" \in DOMAIN input.xvx_data
    /\ (IF input.spike_planted THEN "atk_spike" ELSE "atk_no_spike")
           \in DOMAIN input.xvx_data.win_probabilities
    /\ <<input.alive.atk, input.alive.def>> \in
           DOMAIN input.xvx_data.win_probabilities[
               IF input.spike_planted THEN "atk_spike" ELSE "atk_no_spike"]

\* that entry
Entry ==
    input.xvx_data.win_probabilities[
        IF input.spike_planted THEN "atk_spike" ELSE "atk_no_spike"][
            <<input.alive.atk, input.alive.def>>]

\* C13: _get_win_probability_killer_perspective returns, for an attacker
\* perspective, the attacker-table entry of '{own}v{opponent}' and, for a
\* defender perspective, 1 minus the attacker-table entry of the swapped key;
\* the two perspectives of one alive state and spike status sum to 1.
C13_PerspectivesAreComplementary ==
    /\ (HasEntry /\ output.atk # {}) => output.atk = {Entry}
    /\ (HasEntry /\ output.def # {}) => output.def = {ProbOne - Entry}
    /\ \A a \in output.atk, d \in output.def : a + d = ProbOne

\* C13 witness: both perspectives of a 4v2 post-plant state, whose swapped
\* key has another entry
C13_Witness ==
    /\ HasEntry
    /\ input.alive = [atk |-> 4, def |-> 2]
    /\ input.spike_planted
    /\ input.xvx_data = XvxData
    /\ XvxData.win_probabilities.atk_spike[<<2, 4>>] # Entry
    /\ output.atk = {Entry}
    /\ output.def = {ProbOne - Entry}

\* C14: a key absent from the table, or an absent sub-table, yields 0.5 from
\* the attacker perspective and from the defender perspective; the result is
\* in [0,1] when all table entries are.
C14_MissingKeyYieldsHalf ==
    /\ ~HasEntry => /\ \A a \in output.atk : a = ProbDefault
                    /\ \A d \in output.def : d = ProbDefault
    /\ \A p \in output.atk \cup output.def : p >= 0 /\ p <= ProbOne

\* C14 witness: both perspectives of a pre-plant state with an eliminated
\* side, for which atk_no_spike has no entry
C14_Witness ==
    /\ input.xvx_data = XvxData
    /\ ~input.spike_planted
    /\ input.alive = [atk |-> 3, def |-> 0]
    /\ ~HasEntry
    /\ output = [atk |-> {ProbDefault}, def |-> {ProbDefault}]

\* the category of a loadout value: one step up for every threshold the
\* value is strictly above
CategoryOf(loadout) ==
    LET thresholds == {1500, 4000, 7500, 10000, 15000}
    IN EconomyCategories[1 + Cardinality({t \in thresholds : loadout > t})]

\* 2 x (1 - win_rate) of '{killer category} vs {victim category}', 1.0 when
\* the table has no such key
ModifierOf(killer_loadout, victim_loadout, economic_data) ==
    LET key == <<CategoryOf(killer_loadout), CategoryOf(victim_loadout)>>
    IN IF "economy_categories" \in DOMAIN economic_data
          /\ key \in DOMAIN economic_data.economy_categories
       THEN 2 * (ProbOne - economic_data.economy_categories[key].win_rate)
       ELSE ModifierDefault

\* C15: _calculate_economic_modifier buckets each value by the inclusive
\* thresholds, looks up exactly '{killer category} vs {victim category}',
\* returns 2 x (1 - win_rate) for that key and 1.0 when it is absent; the two
\* calculators pass the killer's and the victim's own loadout values of the
\* round.
C15_EconomicModifierOfOwnLoadouts ==
    /\ \A m \in output :
          m = ModifierOf(input.killer_loadout, input.victim_loadout, input.economic_data)
    /\ resK.scored
          => resK.mod = ModifierOf(rd.loadoutValue[ev.killer], rd.loadoutValue[ev.victim],
                                   EconomicData)
    /\ resD.scored
          => resD.mod = ModifierOf(rd.loadoutValue[ev.killer], rd.loadoutValue[ev.victim],
                                   EconomicData)

\* C15 witness: a killer at 1500 (Save Round) and a victim at 4001 (Force
\* Buy), whose sides' totals are in other categories: 1.5 from the helper and
\* in both calculators, where the swapped key gives 0.5
C15_Witness ==
    /\ input.killer_loadout = 1500
    /\ input.victim_loadout = 4001
    /\ input.economic_data = EconomicData
    /\ output = {150}
    /\ resK.scored /\ resK.mod = 150
    /\ resD.scored /\ resD.mod = 150
    /\ ModifierOf(4001, 1500, EconomicData) = 50
    /\ CategoryOf(1500 + 9000) # CategoryOf(1500)

\* the attacker table of the scenario
ScenarioTable == input.xvx_data.win_probabilities.atk_no_spike

\* C16: in the scenario round (no plant, Elimination, resolvable sides,
\* modifier 1.0, one attacker killing the five defenders before 100 s) the
\* killer's KillContrib is the sum of the five deltas, (probability after
\* the last kill) - (table probability of 5v5), and the probability after
\* the last kill is 1.0 when atk_no_spike['5v0'] = 1.0.
C16_FiveKillRoundTelescopes ==
    (roundIdx = 0 /\ phase = "replay" /\ n = Len(ScenarioVictims))
        => /\ resK.scored
           /\ totalK = (resK.post - ScenarioTable[<<InitialAlive, InitialAlive>>])
                           * ModifierDefault
           /\ ScenarioTable[<<InitialAlive, 0>>] = ProbOne => resK.post = ProbOne

\* the non-observer players of the matches, as <<match position, player position>>
RatedSlots ==
    {s \in (1..Len(input.matches)) \X (1..3) :
        /\ s[2] <= Len(input.matches[s[1]].players)
        /\ ~input.matches[s[1]].players[s[2]].isObserver}

\* the <<puuid, matchId>> key of a slot
KeyOf(s) ==
    <<input.matches[s[1]].players[s[2]].puuid, input.matches[s[1]].matchId>>

\* C17: get_components returns exactly one entry for each non-observer player
\* of each match and none for an observer; each entry holds, for every
\* requested component, the calculator's result, or 0.0 if the calculator
\* raised for that player; a calculator that raises never makes
\* get_components raise, and changes no other value.
C17_OneEntryPerPlayerFailuresIsolated ==
    \A k \in 1..Len(output) :
        LET o == output[k]
            requested == {o.names[j] : j \in 1..Len(o.names)}
        IN /\ o.raised => ~(requested \subseteq o.registry)
           /\ ~o.raised =>
                 /\ DOMAIN o.results = {KeyOf(s) : s \in RatedSlots}
                 /\ Cardinality(DOMAIN o.results) = Cardinality(RatedSlots)
                 /\ \A key \in DOMAIN o.results :
                       /\ DOMAIN o.results[key] = requested
                       /\ \A c \in requested :
                             o.results[key][c] =
                                 IF <<key[2], key[1], c>> \in input.raises
                                 THEN 0
                                 ELSE CalculatorValue(c, key[1], key[2])

\* C17 witness: a call on two matches with all registered components in
\* which every calculator raised for p1 in m1: p1's entry is all 0.0, p2's
\* entries hold the calculators' results, the observer has no entry
C17_Witness ==
    /\ Len(output) >= 1
    /\ Len(input.matches) = 2
    /\ input.component_names = {}
    /\ \A c \in BuiltinComponents : <<"m1", "p1", c>> \in input.raises
    /\ ~output[1].raised
    /\ output[1].registry = BuiltinComponents
    /\ DOMAIN output[1].results = {<<"p1", "m1">>, <<"p2", "m1">>, <<"p2", "m2">>}
    /\ \A c \in BuiltinComponents : output[1].results[<<"p1", "m1">>][c] = 0
    /\ output[1].results[<<"p2", "m1">>]["KillContrib"]
           = CalculatorValue("KillContrib", "p2", "m1")
    /\ output[1].results[<<"p2", "m2">>]["ADRa"] = 0

ZeroRoundsPlayed ==
    \/ input.player.stats = {}
    \/ \E st \in input.player.stats :
          "roundsPlayed" \notin DOMAIN st \/ st.roundsPlayed = 0

\* C19: for a player whose roundsPlayed is 0 or whose stats are missing,
\* calculate_apr and calculate_adra return exactly 0.0 and never raise,
\* whatever the match holds; otherwise calculate_apr returns
\* assists / roundsPlayed.
C19_ZeroRoundsYieldZero ==
    /\ \A v \in output.apr \cup output.adra : ~v.raised
    /\ ZeroRoundsPlayed => \A v \in output.apr \cup output.adra : v.num = 0
    /\ ~ZeroRoundsPlayed =>
          \A v \in output.apr, st \in input.player.stats :
              v.num * st.roundsPlayed
                  = (IF "assists" \in DOMAIN st THEN st.assists ELSE 0) * v.den

\* C19 witness: both metrics returned 0.0 for a player with roundsPlayed 0,
\* assists, damage and three recorded kills
C19_Witness ==
    /\ input.player.stats = {[roundsPlayed |-> 0, assists |-> 3]}
    /\ input.damage_data = [p \in {"p1"} |-> 450]
    /\ Len(input.rounds[1].kills) = MaxRecords
    /\ output = [apr |-> {ZeroFloat}, adra |-> {ZeroFloat}]

RECURSIVE KillsExpected(_, _, _)
\* 100 + armor bonus of the victim, summed over the first len kill records
\* of a round whose killer is the player
KillsExpected(round, len, puuid) ==
    IF len = 0 THEN 0
    ELSE (IF round.kills[len].killer = puuid
          THEN 100 + (LET a == IF round.kills[len].victim \in DOMAIN round.armor
                                THEN round.armor[round.kills[len].victim] ELSE "None"
                      IN IF a = "Heavy" THEN 50
                         ELSE IF a \in {"Light", "Regen"} THEN 25 ELSE 0)
          ELSE 0)
         + KillsExpected(round, len - 1, puuid)

RECURSIVE MatchExpected(_, _, _)
\* that sum over the first len rounds of the match
MatchExpected(rounds, len, puuid) ==
    IF len = 0 THEN 0
    ELSE KillsExpected(rounds[len], Len(rounds[len].kills), puuid)
         + MatchExpected(rounds, len - 1, puuid)

\* C20: calculate_adra returns max(0, (total_damage - expected_damage) /
\* rounds_played), expected_damage being 100 + the victim's armor bonus
\* summed over every kill recorded for the player in every round, each kill
\* counted exactly once; the result is never negative.
C20_AdraCountsEveryKillOnce ==
    ~ZeroRoundsPlayed =>
        \A v \in output.adra, st \in input.player.stats :
            LET total == IF input.player.puuid \in DOMAIN input.damage_data
                         THEN input.damage_data[input.player.puuid] ELSE 0
                surplus == total - MatchExpected(input.rounds, Len(input.rounds),
                                                 input.player.puuid)
            IN /\ v.num >= 0
               /\ surplus <= 0 => v.num = 0
               /\ surplus > 0 => v.num * st.roundsPlayed = surplus * v.den

\* C24: when no round of the current round's half records a planter,
\* _determine_sides returns attacker 'Blue' and defender 'Red'.
C24_NoPlanterInHalfDefaultsToBlueRed ==
    (phase = "replay" /\ PlantedInHalf(rd.roundNum) = {})
        => sides = <<"Blue", "Red">>

\* C24 witness: a second-half round resolved to the default although a
\* first-half round was planted by the roster's first player, of team Red
C24_Witness ==
    /\ phase = "replay"
    /\ rd.roundNum >= HalfRounds
    /\ PlantedInHalf(rd.roundNum) = {}
    /\ PlantedInHalf(0) # {}
    /\ \A q \in PlantedInHalf(0) : planters[q + 1] = players[1].puuid
    /\ players[1].teamId = "Red"
    /\ sides = <<"Blue", "Red">>

\* what the round's sub-table gives for a key, for either perspective
TableValues(xvx_key) ==
    {WinProbability(xvx_key, rd.plantRoundTime # {}, XvxData, is_attacker) :
        is_attacker \in BOOLEAN}

\* the key '{own}v{opponent}' of the perspective player in the counts alive
OwnKey(alive, own, opp) == GetXvxKey(alive[SideOf(own)], alive[SideOf(opp)])

\* pre is the table value; post is the table value unless the post-event
\* key contains a 0 and the round records a winning team
FromTable(res, own, opp) ==
    /\ res.pre \in TableValues(OwnKey(res.before, own, opp))
    /\ (~HasZero(OwnKey(res.alive, own, opp)) \/ ~Truthy(rd.winningTeam))
          => res.post \in TableValues(OwnKey(res.alive, own, opp))

\* C26: for a scored event the pre-event probability always is the table
\* value, and the post-event probability is the table value when the
\* post-event key contains no 0 or the round records no winning team: the
\* terminal override replaces only the post-event probability of a key with
\* a 0 in a round with a winning team.
C26_OverrideOnlyPostOnlyAtZero ==
    /\ resK.scored => FromTable(resK, ev.killer, ev.victim)
    /\ resD.scored => FromTable(resD, ev.victim, ev.killer)

\* C26 witness: the kill that eliminates a side was scored for its killer
\* and for its victim in a planted round that records no winning team, and
\* both post-event probabilities are looked up, not overridden
C26_Witness ==
    /\ resK.scored /\ resD.scored
    /\ HasZero(OwnKey(aliveK, ev.killer, ev.victim))
    /\ HasZero(OwnKey(aliveD, ev.victim, ev.killer))
    /\ rd.plantRoundTime # {}
    /\ rd.roundEndReason = "Elimination"
    /\ ~Truthy(rd.winningTeam)
    /\ resK.post \notin {0, ProbOne}
    /\ resD.post \notin {0, ProbOne}

\* in the sub-table of a round removing an opponent never lowers the win
\* probability of the side that removed it, for either perspective
OpponentRemovalNeverLowers(spike_planted) ==
    \A k \in XvxKeys, is_attacker \in BOOLEAN :
        k[2] > 0 =>
            WinProbability(<<k[1], k[2] - 1>>, spike_planted, XvxData, is_attacker)
                >= WinProbability(k, spike_planted, XvxData, is_attacker)

\* C22: with a win-probability table in which removing an opponent never
\* lowers the killer side's win probability, every scored kill adds a
\* non-negative amount to the killer's KillContrib, whatever the round's
\* result and plant status.
C22_ScoredKillAddsNonNegative ==
    (resK.scored /\ OpponentRemovalNeverLowers(rd.plantRoundTime # {}))
        => resK.impact >= 0

\* no kill record of the round has both its killer and its victim in the
\* roster
NoEventResolvable(round_data) ==
    \A i \in 1..Len(round_data.kills) :
        \/ round_data.kills[i].killer \notin Rated(players)
        \/ round_data.kills[i].victim \notin Rated(players)

\* C21: in a round in which no event has both its killer and its victim in
\* the roster, every replayed event leaves the KillContrib and the
\* DeathContrib of the rated players as they were: the round adds exactly 0,
\* and the replay goes on to the end of the round.
C21_UnresolvableRoundAddsZero ==
    [][ (phase = "replay" /\ NoEventResolvable(rd) /\ n' = n + 1)
            => totalK' = totalK /\ totalD' = totalD /\ phase' = "replay" ]_vars

\* C21 witness: the second round, whose two events both involve a puuid
\* absent from the roster and the rated players, was replayed to its end
\* after a first round that contributed to both totals
C21_Witness ==
    /\ phase = "rounds"
    /\ roundIdx = Len(planters)
    /\ NoEventResolvable(rd)
    /\ n = Len(rd.kills)
    /\ rd.kills[1].killer = ratedK
    /\ rd.kills[2].victim = ratedD
    /\ totalK # 0
    /\ totalD # 0

\* C23: every scored death adds -|base_impact x economic_modifier| to the
\* victim's DeathContrib, the running total never increases over the events
\* and rounds of a match, and the value returned is never positive.
C23_DeathContribNeverPositive ==
    [][ /\ totalD' <= totalD
        /\ (n' = n + 1 /\ resD'.scored)
              => totalD' = totalD - Abs((resD'.post - resD'.pre) * resD'.mod)
        /\ phase' = "done" => output'.DeathContrib <= 0 ]_vars

\* C23 witness: a match returned a negative DeathContrib whose last scored
\* death raised the victim's win probability in the table
C23_Witness ==
    /\ phase = "done"
    /\ output.DeathContrib < 0
    /\ resD.scored
    /\ resD.post > resD.pre
    /\ resD.mod > 0
    /\ resD.impact < 0

\* what one sub-table of the call's xvx_data gives for a key, for either
\* perspective
SubTableValues(xvx_key, spike_planted) ==
    {WinProbability(xvx_key, spike_planted, input.xvx_data, is_attacker) :
        is_attacker \in BOOLEAN}

\* the probabilities of a scored event are those of the spike-planted
\* sub-table if and only if the round has a plantRoundTime
FromRoundSubTable(res, own, opp) ==
    /\ res.pre \in SubTableValues(OwnKey(res.before, own, opp), rd.plantRoundTime # {})
    /\ ~HasZero(OwnKey(res.alive, own, opp))
          => res.post \in SubTableValues(OwnKey(res.alive, own, opp), rd.plantRoundTime # {})

\* C28: within one round both calculators look every scored event up in the
\* same sub-table: the spike-planted one if and only if the round record
\* has a plantRoundTime, whether the event is before or after the plant.
C28_OneSubTablePerRound ==
    /\ resK.scored => FromRoundSubTable(resK, ev.killer, ev.victim)
    /\ resD.scored => FromRoundSubTable(resD, ev.victim, ev.killer)

\* C28 witness: an event earlier than the round's plant time was scored by
\* both calculators, on a table whose two sub-tables differ for its keys
C28_Witness ==
    /\ resK.scored /\ resD.scored
    /\ \E t \in rd.plantRoundTime : ev.time < t
    /\ SubTableValues(OwnKey(resK.before, ev.killer, ev.victim), TRUE)
          \cap SubTableValues(OwnKey(resK.before, ev.killer, ev.victim), FALSE) = {}
    /\ SubTableValues(OwnKey(resD.before, ev.victim, ev.killer), TRUE)
          \cap SubTableValues(OwnKey(resD.before, ev.victim, ev.killer), FALSE) = {}

\* the core components named by test_list_components
CoreComponents == {"KillContrib", "DeathContrib", "APR", "ADRa"}

\* the elements of a list
Elements(list) == {list[k] : k \in 1..Len(list)}

\* C25: once load_builtin_components has run, every list_components() call
\* made before any remove_component call returns a non-empty list that
\* contains KillContrib, DeathContrib, APR and ADRa.
C25_CoreComponentsListedUntilRemoved ==
    \A i \in 1..Len(input) :
        (/\ input[i].op = "list_components"
         /\ \A j \in 1..(i - 1) : input[j].op # "remove_component")
            => /\ Len(input[i].value) > 0
               /\ CoreComponents \subseteq Elements(input[i].value)

\* C25 witness: list_components() was called after ADRa was added again
\* with another calculator and a new component was added, and no component
\* was removed
C25_Witness ==
    /\ Len(input) = 4
    /\ input[1].op = "load_builtin_components"
    /\ input[2].op = "add_component" /\ input[2].name = "ADRa"
    /\ input[3].op = "add_component" /\ input[3].name = "Custom"
    /\ input[4].op = "list_components"
    /\ Elements(input[4].value) = CoreComponents \cup {"Custom"}

\* the calls before call i that registered a name: the import for a
\* built-in name, and the add_component calls
AddsBefore(i, name) ==
    {j \in 1..(i - 1) :
        \/ /\ input[j].op = "load_builtin_components"
           /\ \E b \in 1..Len(BuiltinRegistrations) : BuiltinRegistrations[b][1] = name
        \/ input[j].op = "add_component" /\ input[j].name = name}

RemovesBefore(i, name) ==
    {j \in 1..(i - 1) : input[j].op = "remove_component" /\ input[j].name = name}

\* the name was added before call i and not removed since
Listed(i, name) ==
    \E j \in AddsBefore(i, name) : \A r \in RemovesBefore(i, name) : r < j

\* the calculator the name was last added with before call i
LatestCalculator(i, name) ==
    LET j == CHOOSE a \in AddsBefore(i, name) : \A b \in AddsBefore(i, name) : b <= a
    IN IF input[j].op = "add_component" THEN input[j].calculator
       ELSE BuiltinRegistrations[CHOOSE b \in 1..Len(BuiltinRegistrations) :
                                     BuiltinRegistrations[b][1] = name][2]

\* C27: after any sequence of add_component / remove_component calls,
\* list_components() returns exactly the names added and not removed since,
\* each once; get_component(name) returns the most recently added calculator
\* of a listed name and raises ValueError for an unlisted name;
\* remove_component of an unlisted name changes nothing and does not raise.
C27_RegistryFollowsAddsAndRemoves ==
    \A i \in 1..Len(input) :
        /\ input[i].op = "list_components"
              => /\ Elements(input[i].value)
                        = {name \in CoreComponents \cup RegistryNames : Listed(i, name)}
                 /\ \A k, l \in 1..Len(input[i].value) :
                        input[i].value[k] = input[i].value[l] => k = l
        /\ input[i].op = "get_component"
              => IF Listed(i, input[i].name)
                 THEN /\ input[i].raised = NoValue
                      /\ input[i].value = <<LatestCalculator(i, input[i].name)>>
                 ELSE input[i].raised = "ValueError"
        /\ (input[i].op = "remove_component" /\ ~Listed(i, input[i].name))
              => /\ input[i].raised = NoValue
                 /\ input[i].registry = input[i - 1].registry

\* C27 witness: an unlisted name was removed, ADRa was added again with the
\* calculator f, the four names were listed, get_component returned f for
\* ADRa and raised ValueError for the unlisted name
C27_Witness ==
    /\ Len(input) = 6
    /\ input[2].op = "remove_component" /\ input[2].name = "Custom"
    /\ input[2].registry = input[1].registry
    /\ input[3].op = "add_component" /\ input[3].name = "ADRa"
    /\ input[3].calculator = "f"
    /\ input[4].op = "list_components" /\ Len(input[4].value) = 4
    /\ input[5].op = "get_component" /\ input[5].name = "ADRa"
    /\ input[5].value = <<"f">>
    /\ input[6].op = "get_component" /\ input[6].name = "Custom"
    /\ input[6].raised = "ValueError"

\* C29: in the legacy pipeline an economy matchup key that is absent from
\* the table is resolved to the neutral modifier 1.0 and does not abort the
\* calculation of the match.
C29_AbsentMatchupIsNeutral ==
    (pos.matchup # << >> /\ pos.matchup[1] \notin DOMAIN input.economic_data)
        => /\ pos.raised = NoValue
           /\ pos.mod = ModifierDefault

\* C30: for a player with zero rounds played the legacy calculate_apr and
\* calculate_adra return 0 and the calculation does not end in a division
\* by zero.
C30_LegacyZeroRoundsYieldZero ==
    (pos.i > 0 /\ input.players[pos.i].stats.roundsPlayed = 0)
        => /\ pos.raised = NoValue
           /\ pos.components[pos.i].APR = ZeroFloat
           /\ pos.components[pos.i].ADRa = ZeroFloat

====
